---- MODULE Spec2Model ----
(***************************************************************************)
(* Account lifecycle and access-control core of wed_BE: registration,      *)
(* one-time codes, login, the access gate and the admin user operations.   *)
(* Every request is a sequence of steps; one step is the synchronous code  *)
(* of the handler up to and including its next awaited store or mail call. *)
(* Steps of different requests interleave freely.                          *)
(***************************************************************************)
EXTENDS Integers, Sequences, FiniteSets, Bags, TLC

VARIABLES users, otps, reqs, last, tokens, nextUserId, nextOtpId, consumed

vars == <<users, otps, reqs, last, tokens, nextUserId, nextOtpId, consumed>>

(***************************************************************************)
(* Bounds of the model.                                                    *)
(***************************************************************************)
\* Accounts the requests of one behaviour create (the seeded one not counted).
MaxUsers == 1
\* OTP records the requests of one behaviour create.
MaxOtps == 2
\* Accounts created where an email is registered again after its account was
\* deleted.
MaxReused == 2
\* Requests that may be between two of their steps at the same time.
MaxInFlight == 2

(***************************************************************************)
(* Values.                                                                 *)
(***************************************************************************)
NoId == 0
NoEmail == ""
EmailA == "a@x.com"
\* The same address as the client may type it: other case, padded.
EmailARaw == " A@X.com"
AdminEmail == "admin@wed.com"
AdminPassword == "Admin@123"
UserPassword == "password1"
RawEmails == {NoEmail, EmailA, EmailARaw, AdminEmail}
\* The (email, password) bodies the clients of the model send to register ...
RegisterBodies == {<<NoEmail, UserPassword>>, <<EmailA, "">>, <<EmailA, "short">>,
                   <<EmailA, UserPassword>>, <<EmailARaw, UserPassword>>,
                   <<AdminEmail, UserPassword>>}
\* ... and to login and adminLogin.
Credentials == {<<NoEmail, UserPassword>>, <<EmailA, "">>,
                <<EmailA, UserPassword>>, <<EmailARaw, UserPassword>>,
                <<EmailA, AdminPassword>>, <<AdminEmail, AdminPassword>>,
                <<AdminEmail, UserPassword>>}
\* The role values the update bodies of the model carry.
BodyRoles == {"user", "admin"}
\* The isEmailConfirmed of a body of updateUser: none, true or false.
ConfirmBodies == {"", "true", "false"}

\* The String setters lowercase + trim of the schema, on the sampled inputs.
normalizeEmail(e) == IF e = EmailARaw THEN EmailA ELSE e

\* The password hook of the User model and its comparePassword method.
hashPassword(p) == <<"hash", p>>
comparePassword(candidate, hash) == hashPassword(candidate) = hash

\* Math.random() is k / RandomSteps for k in 0 .. RandomSteps - 1.
RandomSteps == 9000
\* generateOTP as Math.floor(Math.random() * 10000).toString(): no offset.
generateOTPWide(k) == ToString((k * 10000) \div RandomSteps)

\* Math.floor(1000 + Math.random() * 9000).toString()
generateOTP(k) == ToString(1000 + ((k * 9000) \div RandomSteps))
\* Every value of Math.random().
AllDraws == 0 .. RandomSteps - 1
\* The random draws the requests of the model take.
RandomDraws == {0, RandomSteps - 1}
Codes == {generateOTP(k) : k \in RandomDraws}
\* The (email, otp) bodies the clients of the model send.
CodeInputs == {<<NoEmail, generateOTP(0)>>, <<EmailA, "">>, <<AdminEmail, generateOTP(0)>>}
                  \cup ({EmailA, EmailARaw} \X Codes)

\* Time to live of an OTP record, in seconds.
OtpTtlSeconds == 600
\* The clock of the model advances in steps of this many seconds.
TickSeconds == 601

\* An Authorization header: whether it carries a Bearer token at all and, of
\* the token, whether it is a JWT in form, whether its signature is the one
\* the server's secret gives, whether its exp lies in the past, and the id of
\* its payload.
Bearer(present, wellFormed, signed, expired, id) ==
    [present |-> present, wellFormed |-> wellFormed, signed |-> signed,
     expired |-> expired, id |-> id]
\* No Authorization header, another scheme, or nothing after "Bearer".
NoBearer == Bearer(FALSE, FALSE, FALSE, FALSE, NoId)
\* The token generateToken(id) returned, within its lifetime / after it.
Minted(id) == Bearer(TRUE, TRUE, TRUE, FALSE, id)
Outlived(id) == Bearer(TRUE, TRUE, TRUE, TRUE, id)
\* A string that is no JWT, and tokens signed with another secret.
Malformed == Bearer(TRUE, FALSE, FALSE, FALSE, NoId)
Forged(id, expired) == Bearer(TRUE, TRUE, FALSE, expired, id)

\* The text of an account id in a route (req.params.id): the 24 hex digits of
\* the ObjectId hex, spelled with lower-case or with upper-case letters.
IdText(hex, upper) == [hex |-> hex, upper |-> upper]
\* _id.toString(): the hex digits in lower case.
toString(id) == IdText(id, FALSE)
\* The cast of a route parameter to an ObjectId by the store's queries: both
\* spellings give the same id.
castObjectId(text) == text.hex
\* No route parameter.
NoParam == IdText(NoId, FALSE)

\* A number that is not given (undefined).
NoNumber == -1
\* The profile fields of an account, and of the body of updateProfile: "" and
\* NoNumber stand for a field that is absent.
Profile(name, dateOfBirth, relationshipType, numberOfChildren) ==
    [name |-> name, dateOfBirth |-> dateOfBirth, relationshipType |-> relationshipType,
     numberOfChildren |-> numberOfChildren]
NoProfile == Profile("", "", "", NoNumber)
\* The bodies the clients of the model send to updateProfile: all four fields,
\* the two required ones, and one of the required ones missing.
FullBody == Profile("Ann", "1990-01-01", "married", 2)
RequiredBody == Profile("Ann", "1990-01-01", "", NoNumber)
ProfileBodies == {FullBody, RequiredBody, Profile("", "1990-01-01", "married", 2),
                  Profile("Ann", "", "married", 2)}

\* The sanitized form of "no account".
NoUser == [id |-> NoId, email |-> NoEmail, role |-> "", isEmailConfirmed |-> FALSE,
           isProfileComplete |-> FALSE, profile |-> NoProfile]
\* user.toObject() with the password left in.
toObjectKeeping(u) == u

\* A document read with .select("-password"): every field but the password.
selectMinusPassword(u) == [f \in DOMAIN u \ {"password", "confirmedBy"} |-> u[f]]

\* user.toObject() with the password deleted.
toObject(u) == [id |-> u.id, email |-> u.email, role |-> u.role,
                isEmailConfirmed |-> u.isEmailConfirmed,
                isProfileComplete |-> u.isProfileComplete, profile |-> u.profile]

\* The account the seed script creates.
SuperAdmin == [id |-> 1, email |-> AdminEmail, password |-> hashPassword(AdminPassword),
               role |-> "superAdmin", isEmailConfirmed |-> TRUE,
               isProfileComplete |-> TRUE,
               profile |-> Profile("Super Admin", "", "", NoNumber),
               confirmedBy |-> "seed"]

(***************************************************************************)
(* Errors and responses.                                                   *)
(***************************************************************************)
\* new AppError(message, statusCode, "error", translationKey)
AppError(statusCode, key) == [statusCode |-> statusCode, key |-> key]
\* No error thrown.
NoError == [statusCode |-> 0, key |-> ""]
\* new Error(message), or an error of the store driver: no statusCode.
PlainError(message) == [statusCode |-> 0, key |-> message]

\* process.env as the code reads it: NODE_ENV, and JWT_SECRET with "" for a
\* variable that is not set.
Envs == [NODE_ENV : {"production", "development"}, JWT_SECRET : {"", "configured"}]

\* A response: the status code, the translation key or the text of its
\* message, the token and the account or the list of accounts of its data,
\* the environments in which its body has the field stack, and the error it
\* was made from.
NoResp == [status |-> 0, key |-> "", token |-> NoId, user |-> NoUser, data |-> {},
           stack |-> {}, thrown |-> NoError]

\* The boundary translator answering every error that has no status code
\* with the message of error.internalServer.
errorHandlerGeneric(err) ==
    [NoResp EXCEPT !.status = IF err.statusCode = 0 THEN 500 ELSE err.statusCode,
                   !.key = IF err.statusCode = 0 THEN "error.internalServer" ELSE err.key,
                   !.stack = {env \in Envs : env.NODE_ENV = "development"},
                   !.thrown = err]

\* The boundary translator: err.statusCode || 500, the translation of
\* err.translationKey or err.message || the translation of
\* error.internalServer, and err.stack when NODE_ENV is development.
errorHandler(err) ==
    [NoResp EXCEPT !.status = IF err.statusCode = 0 THEN 500 ELSE err.statusCode,
                   !.key = IF err.key = "" THEN "error.internalServer" ELSE err.key,
                   !.stack = {env \in Envs : env.NODE_ENV = "development"},
                   !.thrown = err]
\* res.status(code).json({message, data: {token, user}})
Success(code, key, token, user) == [NoResp EXCEPT !.status = code, !.key = key,
                                                  !.token = token, !.user = user]
\* res.status(200).json({success: true, data: {data: users, pagination}})
SuccessList(list) == [Success(200, "", NoId, NoUser) EXCEPT !.data = list]

\* jwt.sign with the id of the seeded account as payload, whatever the caller.
generateTokenSeeded(userId) == SuperAdmin.id

\* jwt.sign({id: userId}, ...): the token carries the account identifier.
generateToken(userId) == userId

(***************************************************************************)
(* The store.                                                              *)
(***************************************************************************)
\* What findOne / findById / findOneAndUpdate give when nothing matches.
Null == [id |-> NoId, email |-> NoEmail, password |-> <<>>, role |-> "",
         isEmailConfirmed |-> FALSE, isProfileComplete |-> FALSE, profile |-> NoProfile,
         confirmedBy |-> ""]
\* The results a find-one query can give on the matching documents S.
FindOne(S) == IF S = {} THEN {Null} ELSE S

UserFindOne(us, email) == {u \in us : u.email = normalizeEmail(email)}
UserFindById(us, id) == {u \in us : u.id = id}
\* A store without the unique index on email.
NoUniqueIndex(us, email) == TRUE
\* The unique index on email: a create for a held email is refused.
UserCreateAllowed(us, email) == \A u \in us : u.email # normalizeEmail(email)
\* User.create of register with isEmailConfirmed true.
NewUserConfirmed(id, email, password) ==
    [id |-> id, email |-> normalizeEmail(email),
     password |-> hashPassword(password), role |-> "user",
     isEmailConfirmed |-> TRUE, isProfileComplete |-> FALSE,
     profile |-> NoProfile, confirmedBy |-> ""]

\* User.create({email, password, isEmailConfirmed: false, isProfileComplete:
\* false}); confirmedBy records what set isEmailConfirmed to true.
NewUser(id, email, password) == [id |-> id, email |-> normalizeEmail(email),
                                 password |-> hashPassword(password), role |-> "user",
                                 isEmailConfirmed |-> FALSE, isProfileComplete |-> FALSE,
                                 profile |-> NoProfile, confirmedBy |-> ""]

NullOtp == [id |-> NoId, email |-> NoEmail, otp |-> "", age |-> 0, owner |-> NoId]
FindOneOtp(S) == IF S = {} THEN {NullOtp} ELSE S
\* A lookup that matches on the email alone.
OtpFindByEmail(os, email, otp) == {o \in os : o.email = normalizeEmail(email)}
OtpFind(os, email, otp) == {o \in os : o.email = normalizeEmail(email) /\ o.otp = otp}
\* A deleteMany that removes nothing.
OtpDeleteManyKept(os, email) == os

OtpDeleteMany(os, email) == {o \in os : o.email # normalizeEmail(email)}
\* A deleteOne that removes nothing.
OtpDeleteNone(os, id) == os
\* A deleteOne that removes every record with the email of the record id.
OtpDeleteSiblings(os, id) == {o \in os : \A p \in os : p.id = id => o.email # p.email}

OtpDeleteOne(os, id) == {o \in os : o.id # id}
\* Otp.create({email, otp}); owner records the account the code is issued for.
NewOtp(id, email, otp) == [id |-> id, email |-> normalizeEmail(email), otp |-> otp,
                           age |-> 0, owner |-> NoId]

(***************************************************************************)
(* Requests.                                                               *)
(***************************************************************************)
\* A request: what it was sent with (op .. role), where it stands (pc), what
\* its handler holds (uid .. doc), and its response.  The other fields record,
\* for the properties below, what the store held when the request read it:
\* calls counts the store and mail calls made, hadUser / hadOtp / exact /
\* stale / pwOk / again are read off the store when the step is taken.
NoReq == [op |-> "none", pc |-> "none", email |-> NoEmail, password |-> "",
          otp |-> "", token |-> NoId, target |-> NoParam, role |-> "",
          uid |-> NoId, found |-> NoId, created |-> NoId, otpId |-> NoId,
          doc |-> NoUser, calls |-> 0, exact |-> FALSE, hadOtp |-> FALSE,
          hadUser |-> FALSE, hadRole |-> "", pwOk |-> FALSE, stale |-> FALSE,
          again |-> FALSE, resp |-> NoResp, bearer |-> NoBearer,
          body |-> NoProfile, mail |-> "none", confirm |-> "",
          owner |-> NoId]

\* A request of the unauthenticated tier, as it arrives.
NewReq(op, email, password, otp) == [NoReq EXCEPT !.op = op,
                                     !.email = email, !.password = password, !.otp = otp]
\* A request of a gated route, with the bearer token it presents.
NewGatedReq(op, token, target, role) == [NoReq EXCEPT !.op = op,
                                         !.token = token, !.target = target,
                                         !.role = role]

InFlight == BagToSet(reqs)
CanStart == BagCardinality(reqs) < MaxInFlight
\* In-flight requests that have still to create an OTP record.
PendingOtps ==
    BagCardinality([r \in {q \in InFlight : q.pc \in {"createUser", "deleteMany", "createOtp"}
                                            /\ q.op \in {"register", "resendOTP"}}
                    |-> reqs[r]])
\* Requests that issue a code start while the codes they need are within MaxOtps.
CanCreateOtp == (nextOtpId - 1) + PendingOtps < MaxOtps

\* The request r, in flight, ends as q with response resp.
Finish(r, q, resp) ==
    /\ reqs' = reqs (-) SetToBag({r})
    /\ last' = [q EXCEPT !.pc = "done", !.resp = resp]
\* A request that is answered by its first step.
StartFinish(r, resp) ==
    /\ reqs' = reqs
    /\ last' = [r EXCEPT !.pc = "done", !.resp = resp]
\* A request whose first step leaves it in flight.
StartContinue(r) ==
    /\ reqs' = reqs (+) SetToBag({r})
    /\ last' = NoReq
\* The request r, in flight, moves on to r2.
Continue(r, r2) ==
    /\ reqs' = (reqs (-) SetToBag({r})) (+) SetToBag({r2})
    /\ last' = NoReq

\* What the store holds for an email, read directly.
HasUser(email) == \E u \in users : u.email = normalizeEmail(email)

(***************************************************************************)
(* register                                                                *)
(***************************************************************************)
\* The input checks of register without the length check.
registerValidatePresence(email, password) ==
    IF email = NoEmail \/ password = "" THEN AppError(400, "auth.emailRequired")
    ELSE NoError

\* The input checks of register: the error thrown, or NoError.
registerValidate(email, password) ==
    IF email = NoEmail \/ password = "" THEN AppError(400, "auth.emailRequired")
    ELSE IF Len(password) < 8 THEN AppError(400, "auth.passwordMinLength")
    ELSE NoError

\* if (existingUser) throw 409.
registerConflict(existingUser) ==
    IF existingUser # Null THEN AppError(409, "auth.userExists") ELSE NoError

\* Validation, then User.findOne({email}); registrations are accepted while
\* fewer than bound accounts were created.
RegisterFindUpTo(email, password, bound) ==
    /\ CanStart
    /\ LET r == [NewReq("register", email, password, "") EXCEPT
                   !.hadUser = HasUser(email)] IN
       IF registerValidate(email, password) # NoError
       THEN StartFinish(r, errorHandler(registerValidate(email, password)))
       ELSE \E u \in FindOne(UserFindOne(users, email)) :
              IF registerConflict(u) # NoError
              THEN StartFinish([r EXCEPT !.calls = 1, !.found = u.id],
                               errorHandler(registerConflict(u)))
              ELSE /\ nextUserId - 2 < bound /\ CanCreateOtp
                   /\ StartContinue([r EXCEPT !.calls = 1, !.pc = "createUser"])
    /\ UNCHANGED <<users, otps, tokens, nextUserId, nextOtpId, consumed>>

\* register while fewer than MaxUsers accounts were created.
RegisterFind(email, password) == RegisterFindUpTo(email, password, MaxUsers)

\* User.create({email, password, ...}).
RegisterCreateUser(r) ==
    /\ r \in InFlight /\ r.op = "register" /\ r.pc = "createUser"
    /\ IF UserCreateAllowed(users, r.email)
       THEN /\ users' = users \cup {NewUser(nextUserId, r.email, r.password)}
            /\ nextUserId' = nextUserId + 1
            /\ Continue(r, [r EXCEPT !.calls = 2, !.created = nextUserId,
                                     !.pc = "createOtp"])
       ELSE /\ users' = users
            /\ nextUserId' = nextUserId
            /\ Finish(r, [r EXCEPT !.calls = 2],
                      errorHandler(PlainError("E11000 duplicate key")))
    /\ UNCHANGED <<otps, tokens, nextOtpId, consumed>>

\* generateOTP() with the random draw k, then Otp.create({email, otp}).
RegisterCreateOtp(r, k) ==
    /\ r \in InFlight /\ r.op = "register" /\ r.pc = "createOtp"
    /\ otps' = otps \cup {[NewOtp(nextOtpId, r.email, generateOTP(k)) EXCEPT
                              !.owner = r.created]}
    /\ nextOtpId' = nextOtpId + 1
    /\ Continue(r, [r EXCEPT !.calls = 3, !.otpId = nextOtpId, !.pc = "sendMail"])
    /\ UNCHANGED <<users, tokens, nextUserId, consumed>>

\* The request once await sendOTPEmail(email, otp) has returned or thrown.
Mailed(r, delivered) ==
    [r EXCEPT !.calls = 4, !.mail = IF delivered THEN "sent" ELSE "failed"]

\* register undoing its two creates when the mail dispatch fails.
RegisterSendMailRollback(r, delivered) ==
    /\ r \in InFlight /\ r.op = "register" /\ r.pc = "sendMail"
    /\ IF delivered
       THEN /\ tokens' = tokens \cup {generateToken(r.created)}
            /\ users' = users /\ otps' = otps
            /\ Finish(r, Mailed(r, delivered),
                      Success(201, "auth.registerSuccess", generateToken(r.created),
                              toObject(NewUser(r.created, r.email, r.password))))
       ELSE /\ tokens' = tokens
            /\ users' = users \ UserFindById(users, r.created)
            /\ otps' = OtpDeleteOne(otps, r.otpId)
            /\ Finish(r, Mailed(r, delivered),
                      errorHandler(PlainError("Failed to send OTP email")))
    /\ UNCHANGED <<nextUserId, nextOtpId, consumed>>

\* sendOTPEmail(email, otp), then the token and the 201 response.
RegisterSendMail(r, delivered) ==
    /\ r \in InFlight /\ r.op = "register" /\ r.pc = "sendMail"
    /\ IF delivered
       THEN /\ tokens' = tokens \cup {generateToken(r.created)}
            /\ Finish(r, Mailed(r, delivered),
                      Success(201, "auth.registerSuccess", generateToken(r.created),
                              toObject(NewUser(r.created, r.email, r.password))))
       ELSE /\ tokens' = tokens
            /\ Finish(r, Mailed(r, delivered),
                      errorHandler(PlainError("Failed to send OTP email")))
    /\ UNCHANGED <<users, otps, nextUserId, nextOtpId, consumed>>

(***************************************************************************)
(* resendOTP                                                               *)
(***************************************************************************)
\* Validation, then User.findOne({email}).
ResendFind(email) ==
    /\ CanStart
    /\ LET r == [NewReq("resendOTP", email, "", "") EXCEPT !.hadUser = HasUser(email)] IN
       IF email = NoEmail
       THEN StartFinish(r, errorHandler(AppError(400, "auth.emailRequired")))
       ELSE \E u \in FindOne(UserFindOne(users, email)) :
              IF u = Null
              THEN StartFinish([r EXCEPT !.calls = 1],
                               errorHandler(AppError(404, "auth.userNotFound")))
              ELSE /\ CanCreateOtp
                   /\ StartContinue([r EXCEPT !.calls = 1, !.found = u.id,
                                              !.pc = "deleteMany"])
    /\ UNCHANGED <<users, otps, tokens, nextUserId, nextOtpId, consumed>>

\* Otp.deleteMany({email}).
ResendDeleteMany(r) ==
    /\ r \in InFlight /\ r.op = "resendOTP" /\ r.pc = "deleteMany"
    /\ otps' = OtpDeleteMany(otps, r.email)
    /\ Continue(r, [r EXCEPT !.calls = 2, !.pc = "createOtp"])
    /\ UNCHANGED <<users, tokens, nextUserId, nextOtpId, consumed>>

\* resendOTP going on without creating a record.
ResendCreateNothing(r, k) ==
    /\ r \in InFlight /\ r.op = "resendOTP" /\ r.pc = "createOtp"
    /\ otps' = otps
    /\ nextOtpId' = nextOtpId + 1
    /\ Continue(r, [r EXCEPT !.calls = 3, !.otpId = nextOtpId, !.pc = "sendMail"])
    /\ UNCHANGED <<users, tokens, nextUserId, consumed>>

\* Otp.create({email, otp}), otp being generateOTP() with the random draw k.
ResendCreateOtp(r, k) ==
    /\ r \in InFlight /\ r.op = "resendOTP" /\ r.pc = "createOtp"
    /\ otps' = otps \cup {[NewOtp(nextOtpId, r.email, generateOTP(k)) EXCEPT
                              !.owner = r.found]}
    /\ nextOtpId' = nextOtpId + 1
    /\ Continue(r, [r EXCEPT !.calls = 3, !.otpId = nextOtpId, !.pc = "sendMail"])
    /\ UNCHANGED <<users, tokens, nextUserId, consumed>>

\* resendOTP answering 200 whether sendOTPEmail returned or threw.
ResendSendMailIgnoring(r, delivered) ==
    /\ r \in InFlight /\ r.op = "resendOTP" /\ r.pc = "sendMail"
    /\ Finish(r, Mailed(r, delivered), Success(200, "auth.otpResent", NoId, NoUser))
    /\ UNCHANGED <<users, otps, tokens, nextUserId, nextOtpId, consumed>>

\* sendOTPEmail(email, otp), then the 200 response.
ResendSendMail(r, delivered) ==
    /\ r \in InFlight /\ r.op = "resendOTP" /\ r.pc = "sendMail"
    /\ IF delivered
       THEN Finish(r, Mailed(r, delivered), Success(200, "auth.otpResent", NoId, NoUser))
       ELSE Finish(r, Mailed(r, delivered),
                   errorHandler(PlainError("Failed to send OTP email")))
    /\ UNCHANGED <<users, otps, tokens, nextUserId, nextOtpId, consumed>>

(***************************************************************************)
(* confirmOTP                                                              *)
(***************************************************************************)
\* if (!otpRecord) throw 400.
confirmOtpCheck(otpRecord) ==
    IF otpRecord = NullOtp THEN AppError(400, "auth.invalidOTP") ELSE NoError

\* An update that sets nothing.
confirmNothing(u) == u

\* The update of findOneAndUpdate({email}, {isEmailConfirmed: true}).
confirmEmail(u) == [u EXCEPT !.isEmailConfirmed = TRUE,
                               !.confirmedBy = IF u.isEmailConfirmed THEN @ ELSE "confirmOTP"]

\* Validation, then Otp.findOne({email, otp}).
ConfirmFindOtp(email, otp) ==
    /\ CanStart
    /\ LET r == [NewReq("confirmOTP", email, "", otp) EXCEPT
                   !.exact = \E o \in otps : o.email = email /\ o.otp = otp,
                   !.hadOtp = \E o \in otps : o.email = normalizeEmail(email)
                                              /\ o.otp = otp] IN
       IF email = NoEmail \/ otp = ""
       THEN StartFinish(r, errorHandler(AppError(400, "auth.emailRequired")))
       ELSE \E o \in FindOneOtp(OtpFind(otps, email, otp)) :
              IF confirmOtpCheck(o) # NoError
              THEN StartFinish([r EXCEPT !.calls = 1], errorHandler(confirmOtpCheck(o)))
              ELSE StartContinue([r EXCEPT !.calls = 1, !.otpId = o.id, !.owner = o.owner,
                                           !.stale = o.age > OtpTtlSeconds,
                                           !.pc = "updateUser"])
    /\ UNCHANGED <<users, otps, tokens, nextUserId, nextOtpId, consumed>>

\* confirmOTP whose branch for a missing account neither responds nor calls
\* next: the request is left without an answer.
ConfirmUpdateUserSwallowing(r) ==
    /\ r \in InFlight /\ r.op = "confirmOTP" /\ r.pc = "updateUser"
    /\ \E u \in FindOne(UserFindOne(users, r.email)) :
         LET q == [r EXCEPT !.calls = 2, !.hadUser = HasUser(r.email)] IN
         IF u = Null
         THEN /\ users' = users
              /\ Continue(r, [q EXCEPT !.pc = "swallowed"])
         ELSE /\ users' = (users \ {u}) \cup {confirmEmail(u)}
              /\ Continue(r, [q EXCEPT !.found = u.id, !.doc = toObject(confirmEmail(u)),
                                       !.pc = "deleteOtp"])
    /\ UNCHANGED <<otps, tokens, nextUserId, nextOtpId, consumed>>

\* confirmOTP deleting the matched record also when it finds no account.
ConfirmUpdateUserPurging(r) ==
    /\ r \in InFlight /\ r.op = "confirmOTP" /\ r.pc = "updateUser"
    /\ \E u \in FindOne(UserFindOne(users, r.email)) :
         LET q == [r EXCEPT !.calls = 2, !.hadUser = HasUser(r.email)] IN
         IF u = Null
         THEN /\ users' = users
              /\ otps' = OtpDeleteOne(otps, r.otpId)
              /\ Finish(r, q, errorHandler(AppError(404, "auth.userNotFound")))
         ELSE /\ users' = (users \ {u}) \cup {confirmEmail(u)}
              /\ otps' = otps
              /\ Continue(r, [q EXCEPT !.found = u.id, !.doc = toObject(confirmEmail(u)),
                                       !.pc = "deleteOtp"])
    /\ UNCHANGED <<tokens, nextUserId, nextOtpId, consumed>>

\* User.findOneAndUpdate({email}, {isEmailConfirmed: true}, {new: true}).
ConfirmUpdateUser(r) ==
    /\ r \in InFlight /\ r.op = "confirmOTP" /\ r.pc = "updateUser"
    /\ \E u \in FindOne(UserFindOne(users, r.email)) :
         LET q == [r EXCEPT !.calls = 2, !.hadUser = HasUser(r.email)] IN
         IF u = Null
         THEN /\ users' = users
              /\ Finish(r, q, errorHandler(AppError(404, "auth.userNotFound")))
         ELSE /\ users' = (users \ {u}) \cup {confirmEmail(u)}
              /\ Continue(r, [q EXCEPT !.found = u.id, !.doc = toObject(confirmEmail(u)),
                                       !.pc = "deleteOtp"])
    /\ UNCHANGED <<otps, tokens, nextUserId, nextOtpId, consumed>>

\* Otp.deleteOne({_id: otpRecord._id}), then the token and the 200 response.
ConfirmDeleteOtp(r) ==
    /\ r \in InFlight /\ r.op = "confirmOTP" /\ r.pc = "deleteOtp"
    /\ otps' = OtpDeleteOne(otps, r.otpId)
    /\ tokens' = tokens \cup {generateToken(r.found)}
    /\ consumed' = {i \in consumed \cup {r.otpId} :
                       \E q \in BagToSet(reqs (-) SetToBag({r})) : q.otpId = i}
    /\ Finish(r, [r EXCEPT !.calls = 3, !.again = r.otpId \in consumed],
              Success(200, "auth.emailConfirmed", generateToken(r.found), r.doc))
    /\ UNCHANGED <<users, nextUserId, nextOtpId>>

(***************************************************************************)
(* login, adminLogin                                                       *)
(***************************************************************************)
\* Checks of login that tell an unknown email from a wrong password.
loginCheckTelling(user, password) ==
    IF user = Null THEN AppError(404, "auth.userNotFound")
    ELSE IF ~(hashPassword(password) = user.password)
    THEN AppError(401, "auth.invalidCredentials")
    ELSE NoError

\* login open to accounts with a confirmed email only.
loginCheckConfirmed(user, password) ==
    IF user = Null THEN AppError(401, "auth.invalidCredentials")
    ELSE IF ~comparePassword(password, user.password)
    THEN AppError(401, "auth.invalidCredentials")
    ELSE IF ~user.isEmailConfirmed THEN AppError(403, "auth.emailNotConfirmed")
    ELSE NoError

\* The checks of login on the account found and the password given.
loginCheck(user, password) ==
    IF user = Null THEN AppError(401, "auth.invalidCredentials")
    ELSE IF ~comparePassword(password, user.password)
    THEN AppError(401, "auth.invalidCredentials")
    ELSE NoError

\* Validation, User.findOne({email}).select("+password"), comparePassword.
Login(email, password) ==
    /\ CanStart
    /\ LET r == [NewReq("login", email, password, "") EXCEPT
                   !.hadUser = HasUser(email),
                   !.pwOk = \E u \in users : /\ u.email = normalizeEmail(email)
                                             /\ u.password = hashPassword(password)] IN
       IF email = NoEmail \/ password = ""
       THEN /\ StartFinish(r, errorHandler(AppError(400, "auth.emailRequired")))
            /\ tokens' = tokens
       ELSE \E u \in FindOne(UserFindOne(users, email)) :
              IF loginCheck(u, password) # NoError
              THEN /\ StartFinish([r EXCEPT !.calls = 1, !.found = u.id],
                                  errorHandler(loginCheck(u, password)))
                   /\ tokens' = tokens
              ELSE /\ StartFinish([r EXCEPT !.calls = 1, !.found = u.id],
                                  Success(200, "auth.loginSuccess", generateToken(u.id),
                                          toObject(u)))
                   /\ tokens' = tokens \cup {generateToken(u.id)}
    /\ UNCHANGED <<users, otps, nextUserId, nextOtpId, consumed>>

IsAdminRole(role) == role = "admin" \/ role = "superAdmin"

\* Checks of adminLogin in the order found, password, role.
adminLoginCheckPasswordFirst(user, password) ==
    IF user = Null THEN AppError(401, "auth.invalidCredentials")
    ELSE IF ~(hashPassword(password) = user.password)
    THEN AppError(401, "auth.invalidCredentials")
    ELSE IF ~(user.role = "admin" \/ user.role = "superAdmin")
    THEN AppError(403, "auth.unauthorized")
    ELSE NoError

\* The checks of adminLogin, in their order: found, role, password.
adminLoginCheck(user, password) ==
    IF user = Null THEN AppError(401, "auth.invalidCredentials")
    ELSE IF ~IsAdminRole(user.role) THEN AppError(403, "auth.unauthorized")
    ELSE IF ~comparePassword(password, user.password)
    THEN AppError(401, "auth.invalidCredentials")
    ELSE NoError

\* Validation, User.findOne({email}).select("+password"), the checks.
AdminLogin(email, password) ==
    /\ CanStart
    /\ LET r == [NewReq("adminLogin", email, password, "") EXCEPT
                   !.hadUser = HasUser(email),
                   !.hadRole = IF HasUser(email)
                               THEN (CHOOSE u \in users :
                                       u.email = normalizeEmail(email)).role
                               ELSE "",
                   !.pwOk = \E u \in users : /\ u.email = normalizeEmail(email)
                                             /\ u.password = hashPassword(password)] IN
       IF email = NoEmail \/ password = ""
       THEN /\ StartFinish(r, errorHandler(AppError(400, "auth.emailRequired")))
            /\ tokens' = tokens
       ELSE \E u \in FindOne(UserFindOne(users, email)) :
              IF adminLoginCheck(u, password) # NoError
              THEN /\ StartFinish([r EXCEPT !.calls = 1, !.found = u.id],
                                  errorHandler(adminLoginCheck(u, password)))
                   /\ tokens' = tokens
              ELSE /\ StartFinish([r EXCEPT !.calls = 1, !.found = u.id],
                                  Success(200, "auth.loginSuccess", generateToken(u.id),
                                          toObject(u)))
                   /\ tokens' = tokens \cup {generateToken(u.id)}
    /\ UNCHANGED <<users, otps, nextUserId, nextOtpId, consumed>>

(***************************************************************************)
(* The access gate: authenticate, requireAdmin.                            *)
(***************************************************************************)
\* authenticate answering a missing account as it answers a missing token.
authenticateTokenOnly(us, token) ==
    IF token = NoId \/ UserFindById(us, token) = {}
    THEN AppError(401, "auth.tokenRequired")
    ELSE NoError

\* The error authenticate hands on for the presented token, or NoError when it
\* attaches the account and calls next().
authenticate(us, token) ==
    IF token = NoId THEN AppError(401, "auth.tokenRequired")
    ELSE IF UserFindById(us, token) = {} THEN AppError(404, "auth.userNotFound")
    ELSE NoError

\* requireAdmin letting only the superAdmin role through.
requireAdminSuperOnly(user) ==
    IF user = NoUser THEN AppError(401, "auth.tokenRequired")
    ELSE IF user.role # "superAdmin" THEN AppError(403, "auth.unauthorized")
    ELSE NoError

\* The error requireAdmin hands on for the attached account, or NoError.
requireAdmin(user) ==
    IF user = NoUser THEN AppError(401, "auth.tokenRequired")
    ELSE IF ~IsAdminRole(IF user.role = "" THEN "user" ELSE user.role)
    THEN AppError(403, "auth.unauthorized")
    ELSE NoError

\* process.env.JWT_SECRET || "secret": the key generateToken signs with and
\* authenticate verifies with.
DefaultSecret == "secret"
jwtSecret(env) == IF env.JWT_SECRET = "" THEN DefaultSecret ELSE env.JWT_SECRET
\* A signed token: its payload and the key of its signature; NoToken when
\* none is produced.
NoToken == [id |-> NoId, key |-> ""]
jwtSign(env, userId) == [id |-> generateToken(userId), key |-> jwtSecret(env)]
\* Whether jwt.verify accepts the signature of the token under env.
jwtVerifyKey(env, token) == token.key = jwtSecret(env)

\* jwt.verify(token, secret): the name of the error it throws, "" when it
\* returns the payload.  The form is checked first, then the signature, then exp.
jwtVerify(b) ==
    IF ~b.wellFormed THEN "JsonWebTokenError"
    ELSE IF ~b.signed THEN "JsonWebTokenError"
    ELSE IF b.expired THEN "TokenExpiredError"
    ELSE ""

\* The catch block of authenticate with the JWT error names exchanged.
jwtErrorExchanged(name) ==
    IF name = "JsonWebTokenError" THEN AppError(401, "auth.tokenExpired")
    ELSE IF name = "TokenExpiredError" THEN AppError(401, "auth.tokenInvalid")
    ELSE PlainError(name)

\* The catch block of authenticate: the error handed on for an error name.
jwtError(name) ==
    IF name = "JsonWebTokenError" THEN AppError(401, "auth.tokenInvalid")
    ELSE IF name = "TokenExpiredError" THEN AppError(401, "auth.tokenExpired")
    ELSE PlainError(name)

\* authenticate taking the payload of the token without verifying it.
authenticateUnverified(us, b) ==
    IF ~b.present THEN authenticate(us, NoId) ELSE authenticate(us, b.id)

\* authenticate on the header b: the error handed on, or NoError when the
\* account of the payload's id is attached and next() is called.
authenticateBearer(us, b) ==
    IF ~b.present THEN authenticate(us, NoId)
    ELSE IF jwtVerify(b) # "" THEN jwtError(jwtVerify(b))
    ELSE authenticate(us, b.id)

\* The Authorization headers the clients of the model send: none, no JWT, a
\* forged token for the seeded admin, and the issued tokens in and after
\* their lifetime.
Bearers == {NoBearer, Malformed, Forged(SuperAdmin.id, FALSE), Forged(SuperAdmin.id, TRUE)}
               \cup {Minted(t) : t \in tokens} \cup {Outlived(t) : t \in tokens}

\* A token a client can present: one that was issued, or none.
PresentedTokens == tokens \cup {NoId}
\* An id no account ever had.
NoSuchId == 99
TargetIds == {toString(u.id) : u \in users} \cup {toString(NoSuchId)}
\* The same with the ids of the accounts spelled in upper case as well.
TargetTexts == TargetIds \cup {IdText(u.id, TRUE) : u \in users}

(***************************************************************************)
(* deleteAccount                                                           *)
(***************************************************************************)
\* authenticate: verify the token, User.findById(decoded.id).
DeleteAccountAuth(token) ==
    /\ CanStart
    /\ LET r == NewGatedReq("deleteAccount", token, NoParam, "") IN
       IF authenticate(users, token) # NoError
       THEN StartFinish([r EXCEPT !.calls = IF token = NoId THEN 0 ELSE 1],
                        errorHandler(authenticate(users, token)))
       ELSE StartContinue([r EXCEPT !.calls = 1, !.uid = token, !.pc = "findById"])
    /\ UNCHANGED <<users, otps, tokens, nextUserId, nextOtpId, consumed>>

\* User.findById(req.user._id).
DeleteAccountFind(r) ==
    /\ r \in InFlight /\ r.op = "deleteAccount" /\ r.pc = "findById"
    /\ IF UserFindById(users, r.uid) = {}
       THEN Finish(r, [r EXCEPT !.calls = 2], errorHandler(AppError(404, "auth.userNotFound")))
       ELSE \E u \in UserFindById(users, r.uid) :
              Continue(r, [r EXCEPT !.calls = 2, !.found = u.id, !.email = u.email,
                                    !.pc = "deleteUser"])
    /\ UNCHANGED <<users, otps, tokens, nextUserId, nextOtpId, consumed>>

\* User.findByIdAndDelete(req.user._id).
DeleteAccountDelete(r) ==
    /\ r \in InFlight /\ r.op = "deleteAccount" /\ r.pc = "deleteUser"
    /\ users' = users \ UserFindById(users, r.uid)
    /\ Continue(r, [r EXCEPT !.calls = 3, !.pc = "deleteOtps"])
    /\ UNCHANGED <<otps, tokens, nextUserId, nextOtpId, consumed>>

\* Otp.deleteMany({email: user.email}), then the 200 response.
DeleteAccountDeleteOtps(r) ==
    /\ r \in InFlight /\ r.op = "deleteAccount" /\ r.pc = "deleteOtps"
    /\ otps' = OtpDeleteMany(otps, r.email)
    /\ Finish(r, [r EXCEPT !.calls = 4], Success(200, "auth.accountDeleted", NoId, NoUser))
    /\ UNCHANGED <<users, tokens, nextUserId, nextOtpId, consumed>>

(***************************************************************************)
(* The admin user operations: deleteUser, updateUser.                      *)
(***************************************************************************)
\* authenticate attaching the role the account had when its token was signed
\* (superAdmin for the seeded account, user for a registered one) in place of
\* the stored one.
AttachedAsSigned(us, token) ==
    IF authenticate(us, token) # NoError THEN NoUser
    ELSE [toObject(CHOOSE u \in UserFindById(us, token) : TRUE) EXCEPT
            !.role = IF token = SuperAdmin.id THEN "superAdmin" ELSE "user"]

\* The account authenticate attaches for the token (NoUser when it fails).
Attached(us, token) ==
    IF authenticate(us, token) # NoError THEN NoUser
    ELSE toObject(CHOOSE u \in UserFindById(us, token) : TRUE)

\* The error of the gate authenticate, requireAdmin in this order, or NoError.
AdminGate(us, token) ==
    IF authenticate(us, token) # NoError THEN authenticate(us, token)
    ELSE requireAdmin(Attached(us, token))

\* authenticate, requireAdmin, then the self-delete guard of deleteUser.
DeleteUserAuth(token, target) ==
    /\ CanStart
    /\ LET r == [NewGatedReq("deleteUser", token, target, "") EXCEPT
                   !.calls = IF token = NoId THEN 0 ELSE 1] IN
       IF AdminGate(users, token) # NoError
       THEN StartFinish(r, errorHandler(AdminGate(users, token)))
       ELSE IF toString(token) = target
       THEN StartFinish([r EXCEPT !.uid = token],
                        errorHandler(AppError(400, "auth.cannotDeleteSelf")))
       ELSE StartContinue([r EXCEPT !.uid = token, !.pc = "delete"])
    /\ UNCHANGED <<users, otps, tokens, nextUserId, nextOtpId, consumed>>

\* User.findByIdAndDelete(id), then the response.
DeleteUserDelete(r) ==
    /\ r \in InFlight /\ r.op = "deleteUser" /\ r.pc = "delete"
    /\ users' = users \ UserFindById(users, castObjectId(r.target))
    /\ IF UserFindById(users, castObjectId(r.target)) = {}
       THEN Finish(r, [r EXCEPT !.calls = 2], errorHandler(AppError(404, "auth.userNotFound")))
       ELSE Finish(r, [r EXCEPT !.calls = 2, !.found = castObjectId(r.target)],
                   Success(200, "auth.userDeleted", NoId, NoUser))
    /\ UNCHANGED <<otps, tokens, nextUserId, nextOtpId, consumed>>

\* authenticate, requireAdmin.
UpdateUserAuthBody(token, target, role, confirm) ==
    /\ CanStart
    /\ LET r == [NewGatedReq("updateUser", token, target, role) EXCEPT
                   !.confirm = confirm,
                   !.calls = IF token = NoId THEN 0 ELSE 1] IN
       IF AdminGate(users, token) # NoError
       THEN StartFinish(r, errorHandler(AdminGate(users, token)))
       ELSE StartContinue([r EXCEPT !.uid = token, !.pc = "findById"])
    /\ UNCHANGED <<users, otps, tokens, nextUserId, nextOtpId, consumed>>

\* updateUser with a body that carries a role and no isEmailConfirmed.
UpdateUserAuth(token, target, role) == UpdateUserAuthBody(token, target, role, "")

\* The assignments of updateUser: user.role = role, and user.isEmailConfirmed
\* = isEmailConfirmed when the body carries one.
updateUserAssign(u, r) ==
    [u EXCEPT !.role = r.role,
              !.isEmailConfirmed = IF r.confirm = "" THEN @ ELSE r.confirm = "true",
              !.confirmedBy = IF r.confirm = "false" THEN ""
                              ELSE IF r.confirm = "true" /\ ~u.isEmailConfirmed
                              THEN "updateUser" ELSE @]

\* User.findById(id), then the assignments of the fields the body carries.
UpdateUserFind(r) ==
    /\ r \in InFlight /\ r.op = "updateUser" /\ r.pc = "findById"
    /\ IF UserFindById(users, castObjectId(r.target)) = {}
       THEN Finish(r, [r EXCEPT !.calls = 2], errorHandler(AppError(404, "auth.userNotFound")))
       ELSE \E u \in UserFindById(users, castObjectId(r.target)) :
              Continue(r, [r EXCEPT !.calls = 2, !.found = u.id,
                                    !.doc = toObject(updateUserAssign(u, r)),
                                    !.pc = "save"])
    /\ UNCHANGED <<users, otps, tokens, nextUserId, nextOtpId, consumed>>

\* updateUser storing the changed document as a new record in place of the
\* loaded one.
UpdateUserSaveAsNew(r) ==
    /\ r \in InFlight /\ r.op = "updateUser" /\ r.pc = "save"
    /\ IF UserFindById(users, castObjectId(r.target)) = {}
       THEN /\ users' = users
            /\ Finish(r, [r EXCEPT !.calls = 3], errorHandler(PlainError("DocumentNotFoundError")))
       ELSE /\ users' = {IF u.id = castObjectId(r.target) THEN [updateUserAssign(u, r) EXCEPT !.id = NoSuchId]
                         ELSE u : u \in users}
            /\ Finish(r, [r EXCEPT !.calls = 3],
                      Success(200, "auth.userUpdated", NoId, r.doc))
    /\ UNCHANGED <<otps, tokens, nextUserId, nextOtpId, consumed>>

\* user.save(): writes the modified paths of the loaded document.
UpdateUserSave(r) ==
    /\ r \in InFlight /\ r.op = "updateUser" /\ r.pc = "save"
    /\ IF UserFindById(users, castObjectId(r.target)) = {}
       THEN /\ users' = users
            /\ Finish(r, [r EXCEPT !.calls = 3], errorHandler(PlainError("DocumentNotFoundError")))
       ELSE /\ users' = {IF u.id = castObjectId(r.target) THEN updateUserAssign(u, r) ELSE u :
                          u \in users}
            /\ Finish(r, [r EXCEPT !.calls = 3],
                      Success(200, "auth.userUpdated", NoId, r.doc))
    /\ UNCHANGED <<otps, tokens, nextUserId, nextOtpId, consumed>>

(***************************************************************************)
(* The gated routes with the header they are sent with: the self-service   *)
(* routes logout, getMe, updateProfile and the admin routes.               *)
(***************************************************************************)
\* The account authenticate attaches for the header (NoUser when it fails).
AttachedBearer(us, b) ==
    IF authenticateBearer(us, b) # NoError THEN NoUser ELSE Attached(us, b.id)

\* The gate of the self-service routes: authenticate.
SelfGate(us, b) == authenticateBearer(us, b)

\* The gate of the admin routers mounted in the other order: requireAdmin,
\* which finds no req.user, then authenticate.
AdminGateMisordered(us, b) ==
    IF requireAdmin(NoUser) # NoError THEN requireAdmin(NoUser)
    ELSE authenticateBearer(us, b)

\* The gate of the admin routers: authenticate, then requireAdmin.
AdminGateBearer(us, b) ==
    IF authenticateBearer(us, b) # NoError THEN authenticateBearer(us, b)
    ELSE requireAdmin(AttachedBearer(us, b))

\* A request of a gated route as it arrives with the header b; it records the
\* role the store holds for the id of b when the gate reads the account.
NewBearerReq(op, b) ==
    [NoReq EXCEPT !.op = op, !.bearer = b,
                  !.calls = IF b.present /\ jwtVerify(b) = "" THEN 1 ELSE 0,
                  !.hadUser = UserFindById(users, b.id) # {},
                  !.hadRole = IF UserFindById(users, b.id) = {} THEN ""
                              ELSE (CHOOSE u \in UserFindById(users, b.id) : TRUE).role]

\* if (!req.user) throw 401: the check the self-service handlers start with.
requireUser(user) ==
    IF user = NoUser THEN AppError(401, "auth.tokenRequired") ELSE NoError

\* logout that also clears the OTP records of the account it is called for.
LogoutClearing(b) ==
    /\ CanStart
    /\ LET r == NewBearerReq("logout", b) IN
       IF SelfGate(users, b) # NoError
       THEN /\ StartFinish(r, errorHandler(SelfGate(users, b)))
            /\ otps' = otps
       ELSE /\ StartFinish([r EXCEPT !.uid = b.id],
                           Success(200, "auth.logoutSuccess", NoId, NoUser))
            /\ otps' = OtpDeleteMany(otps, AttachedBearer(users, b).email)
    /\ UNCHANGED <<users, tokens, nextUserId, nextOtpId, consumed>>

\* logout: the gate, the check of req.user, the 200 response.
Logout(b) ==
    /\ CanStart
    /\ LET r == NewBearerReq("logout", b) IN
       IF SelfGate(users, b) # NoError
       THEN StartFinish(r, errorHandler(SelfGate(users, b)))
       ELSE IF requireUser(AttachedBearer(users, b)) # NoError
       THEN StartFinish(r, errorHandler(requireUser(AttachedBearer(users, b))))
       ELSE StartFinish([r EXCEPT !.uid = b.id],
                        Success(200, "auth.logoutSuccess", NoId, NoUser))
    /\ UNCHANGED <<users, otps, tokens, nextUserId, nextOtpId, consumed>>

\* getMe: the gate and the check of req.user.
GetMeAuth(b) ==
    /\ CanStart
    /\ LET r == NewBearerReq("getMe", b) IN
       IF SelfGate(users, b) # NoError
       THEN StartFinish(r, errorHandler(SelfGate(users, b)))
       ELSE StartContinue([r EXCEPT !.uid = b.id, !.pc = "handler",
                                    !.doc = CHOOSE u \in users : u.id = b.id])
    /\ UNCHANGED <<users, otps, tokens, nextUserId, nextOtpId, consumed>>

\* getMe answering with req.user, the account as authenticate loaded it,
\* without a read of its own.
GetMeFindAttached(r) ==
    /\ r \in InFlight /\ r.op = "getMe" /\ r.pc = "handler"
    /\ Finish(r, [r EXCEPT !.calls = 1, !.found = r.doc.id],
              Success(200, "", NoId, toObject(r.doc)))
    /\ UNCHANGED <<users, otps, tokens, nextUserId, nextOtpId, consumed>>

\* getMe: User.findById(req.user._id), then the response.
GetMeFind(r) ==
    /\ r \in InFlight /\ r.op = "getMe" /\ r.pc = "handler"
    /\ \E u \in FindOne(UserFindById(users, r.uid)) :
         IF u = Null
         THEN Finish(r, [r EXCEPT !.calls = 2],
                     errorHandler(AppError(404, "auth.userNotFound")))
         ELSE Finish(r, [r EXCEPT !.calls = 2, !.found = u.id],
                     Success(200, "", NoId, toObject(u)))
    /\ UNCHANGED <<users, otps, tokens, nextUserId, nextOtpId, consumed>>

\* The input check of updateProfile: if (!name || !dateOfBirth) throw 400.
updateProfileValidate(body) ==
    IF body.name = "" \/ body.dateOfBirth = ""
    THEN AppError(400, "auth.emailRequired") ELSE NoError

\* updateProfile: the gate, the input check, the check of req.user.
UpdateProfileAuth(b, body) ==
    /\ CanStart
    /\ LET r == [NewBearerReq("updateProfile", b) EXCEPT !.body = body] IN
       IF SelfGate(users, b) # NoError
       THEN StartFinish(r, errorHandler(SelfGate(users, b)))
       ELSE IF updateProfileValidate(body) # NoError
       THEN StartFinish([r EXCEPT !.uid = b.id],
                        errorHandler(updateProfileValidate(body)))
       ELSE StartContinue([r EXCEPT !.uid = b.id, !.pc = "handler"])
    /\ UNCHANGED <<users, otps, tokens, nextUserId, nextOtpId, consumed>>

\* An update that marks the profile complete only when the body carries all
\* four fields.
updateProfileSetStrict(u, body, kept) ==
    [u EXCEPT !.isProfileComplete = (body.relationshipType # ""
                                     /\ body.numberOfChildren # NoNumber),
              !.profile = Profile(body.name, body.dateOfBirth,
                                  IF body.relationshipType = "" /\ kept
                                  THEN u.profile.relationshipType
                                  ELSE body.relationshipType,
                                  IF body.numberOfChildren = NoNumber THEN 0
                                  ELSE body.numberOfChildren)]

\* The update document of updateProfile with a role of the body in it.
updateProfileSetRole(u, body, kept) ==
    [u EXCEPT !.isProfileComplete = TRUE, !.role = "admin",
              !.profile = Profile(body.name, body.dateOfBirth,
                                  IF body.relationshipType = "" /\ kept
                                  THEN u.profile.relationshipType
                                  ELSE body.relationshipType,
                                  IF body.numberOfChildren = NoNumber THEN 0
                                  ELSE body.numberOfChildren)]

\* The update document of updateProfile applied to the account u: name and
\* dateOfBirth as given, numberOfChildren || 0, isProfileComplete: true.  A
\* relationshipType that is undefined is left out of the update or written
\* as null, depending on the store driver: kept says which.
updateProfileSet(u, body, kept) ==
    [u EXCEPT !.isProfileComplete = TRUE,
              !.profile = Profile(body.name, body.dateOfBirth,
                                  IF body.relationshipType = "" /\ kept
                                  THEN u.profile.relationshipType
                                  ELSE body.relationshipType,
                                  IF body.numberOfChildren = NoNumber THEN 0
                                  ELSE body.numberOfChildren)]

\* updateProfile: User.findByIdAndUpdate(req.user._id, {...}, {new: true}),
\* then the response.
UpdateProfileUpdate(r) ==
    /\ r \in InFlight /\ r.op = "updateProfile" /\ r.pc = "handler"
    /\ \E u \in FindOne(UserFindById(users, r.uid)), kept \in BOOLEAN :
         IF u = Null
         THEN /\ users' = users
              /\ Finish(r, [r EXCEPT !.calls = 2],
                        errorHandler(AppError(404, "auth.userNotFound")))
         ELSE /\ users' = (users \ {u}) \cup {updateProfileSet(u, r.body, kept)}
              /\ Finish(r, [r EXCEPT !.calls = 2, !.found = u.id],
                        Success(200, "auth.profileUpdated", NoId,
                                toObject(updateProfileSet(u, r.body, kept))))
    /\ UNCHANGED <<otps, tokens, nextUserId, nextOtpId, consumed>>

\* The handlers behind router.use(authenticate); router.use(requireAdmin) of
\* the users and the questions routers.
UsersRoutes == {"getAllUsers", "getUserById", "updateUser", "deleteUser"}
QuestionsRoutes == {"getAllQuestions", "getQuestionById", "createQuestion",
                    "updateQuestion", "deleteQuestion"}
AdminRoutes == UsersRoutes \cup QuestionsRoutes
\* Those of them whose handler is not followed step by step.
PlainAdminRoutes == AdminRoutes \ {"getAllUsers", "getUserById", "updateUser", "deleteUser"}

\* A request to an admin route: the gate.
AdminRouteAuth(b, route) ==
    /\ CanStart
    /\ LET r == NewBearerReq(route, b) IN
       IF AdminGateBearer(users, b) # NoError
       THEN StartFinish(r, errorHandler(AdminGateBearer(users, b)))
       ELSE StartContinue([r EXCEPT !.uid = b.id, !.pc = "handler"])
    /\ UNCHANGED <<users, otps, tokens, nextUserId, nextOtpId, consumed>>

\* The handler of an admin route runs; what it does to the accounts and the
\* questions is not followed here.
AdminRouteRun(r) ==
    /\ r \in InFlight /\ r.op \in PlainAdminRoutes /\ r.pc = "handler"
    /\ Finish(r, [r EXCEPT !.calls = 2], Success(200, r.op, NoId, NoUser))
    /\ UNCHANGED <<users, otps, tokens, nextUserId, nextOtpId, consumed>>

\* The filter of getAllUsers when the request has no query: every account
\* but the superAdmin ones.
getAllUsersQuery(us) == {u \in us : u.role # "superAdmin"}

\* getAllUsers: User.find(query).select("-password") and the count, then the
\* response with the list.
GetAllUsersFind(r) ==
    /\ r \in InFlight /\ r.op = "getAllUsers" /\ r.pc = "handler"
    /\ Finish(r, [r EXCEPT !.calls = 2],
              SuccessList({selectMinusPassword(u) : u \in getAllUsersQuery(users)}))
    /\ UNCHANGED <<users, otps, tokens, nextUserId, nextOtpId, consumed>>

\* getUserById: the gate.
GetUserByIdAuth(token, target) ==
    /\ CanStart
    /\ LET r == [NewGatedReq("getUserById", token, target, "") EXCEPT
                   !.calls = IF token = NoId THEN 0 ELSE 1] IN
       IF AdminGate(users, token) # NoError
       THEN StartFinish(r, errorHandler(AdminGate(users, token)))
       ELSE StartContinue([r EXCEPT !.uid = token, !.pc = "findById"])
    /\ UNCHANGED <<users, otps, tokens, nextUserId, nextOtpId, consumed>>

\* getUserById: User.findById(id).select("-password"), then the response.
GetUserByIdFind(r) ==
    /\ r \in InFlight /\ r.op = "getUserById" /\ r.pc = "findById"
    /\ \E u \in FindOne(UserFindById(users, castObjectId(r.target))) :
         IF u = Null
         THEN Finish(r, [r EXCEPT !.calls = 2],
                     errorHandler(AppError(404, "auth.userNotFound")))
         ELSE Finish(r, [r EXCEPT !.calls = 2, !.found = u.id],
                     Success(200, "", NoId, selectMinusPassword(u)))
    /\ UNCHANGED <<users, otps, tokens, nextUserId, nextOtpId, consumed>>

(***************************************************************************)
(* The store's own expiry of OTP records (the TTL index on createdAt).     *)
(***************************************************************************)
Expired(o) == o.age > OtpTtlSeconds

\* Time passes.
Tick ==
    /\ \E o \in otps : ~Expired(o)
    /\ otps' = {[o EXCEPT !.age = IF Expired(o) THEN o.age ELSE o.age + TickSeconds] :
                 o \in otps}
    /\ last' = NoReq
    /\ UNCHANGED <<users, reqs, tokens, nextUserId, nextOtpId, consumed>>

\* A pass of the store's TTL monitor removes the expired records.
Purge ==
    /\ \E o \in otps : Expired(o)
    /\ otps' = {o \in otps : ~Expired(o)}
    /\ last' = NoReq
    /\ UNCHANGED <<users, reqs, tokens, nextUserId, nextOtpId, consumed>>

Init ==
    /\ users = {SuperAdmin}
    /\ otps = {}
    /\ reqs = EmptyBag
    /\ last = NoReq
    /\ nextUserId = 2
    /\ nextOtpId = 1
    /\ consumed = {}
    /\ tokens = {}

\* The account lifecycle: register, resendOTP, confirmOTP, deleteAccount and
\* the store's expiry of OTP records.
LifecycleNext ==
    \/ \E c \in RegisterBodies : RegisterFind(c[1], c[2])
    \/ \E r \in InFlight : RegisterCreateUser(r)
    \/ \E r \in InFlight, k \in RandomDraws : RegisterCreateOtp(r, k)
    \/ \E r \in InFlight, delivered \in BOOLEAN : RegisterSendMail(r, delivered)
    \/ \E email \in RawEmails : ResendFind(email)
    \/ \E r \in InFlight : ResendDeleteMany(r)
    \/ \E r \in InFlight, k \in RandomDraws : ResendCreateOtp(r, k)
    \/ \E r \in InFlight, delivered \in BOOLEAN : ResendSendMail(r, delivered)
    \/ \E c \in CodeInputs : ConfirmFindOtp(c[1], c[2])
    \/ \E r \in InFlight : ConfirmUpdateUser(r)
    \/ \E r \in InFlight : ConfirmDeleteOtp(r)
    \/ \E token \in PresentedTokens : DeleteAccountAuth(token)
    \/ \E r \in InFlight : DeleteAccountFind(r)
    \/ \E r \in InFlight : DeleteAccountDelete(r)
    \/ \E r \in InFlight : DeleteAccountDeleteOtps(r)
    \/ Tick
    \/ Purge

\* Sign-in and roles: register, login, adminLogin and the admin's updateUser.
AccessNext ==
    \/ \E c \in RegisterBodies : RegisterFind(c[1], c[2])
    \/ \E r \in InFlight : RegisterCreateUser(r)
    \/ \E r \in InFlight, k \in RandomDraws : RegisterCreateOtp(r, k)
    \/ \E r \in InFlight, delivered \in BOOLEAN : RegisterSendMail(r, delivered)
    \/ \E c \in Credentials : Login(c[1], c[2])
    \/ \E c \in Credentials : AdminLogin(c[1], c[2])
    \/ \E token \in PresentedTokens, target \in TargetIds, role \in BodyRoles :
          UpdateUserAuth(token, target, role)
    \/ \E r \in InFlight : UpdateUserFind(r)
    \/ \E r \in InFlight : UpdateUserSave(r)

\* The admin's deleteUser.
AdminNext ==
    \/ \E token \in PresentedTokens, target \in TargetTexts : DeleteUserAuth(token, target)
    \/ \E r \in InFlight : DeleteUserDelete(r)

\* The bodies and credentials the requests of the gate specification carry.
GateBodies == {<<EmailA, UserPassword>>}
GateCredentials == {<<EmailA, UserPassword>>, <<AdminEmail, AdminPassword>>}

\* The access gate: the gated routes, with register and login issuing the
\* tokens and updateUser, deleteUser and deleteAccount changing the accounts.
\* The admin routes the requests of the gate specification go to: one of
\* each router.
GateRoutes == {"getAllUsers", "createQuestion"}

\* The access gate: the gated routes under every kind of header, with
\* register and login issuing the tokens and updateUser changing the roles.
GateNext ==
    \/ \E c \in GateBodies : RegisterFind(c[1], c[2])
    \/ \E r \in InFlight : RegisterCreateUser(r)
    \/ \E r \in InFlight : RegisterCreateOtp(r, 0)
    \/ \E r \in InFlight : RegisterSendMail(r, TRUE)
    \/ \E c \in GateCredentials : Login(c[1], c[2])
    \/ \E token \in PresentedTokens, target \in TargetIds, role \in BodyRoles :
          UpdateUserAuth(token, target, role)
    \/ \E r \in InFlight : UpdateUserFind(r)
    \/ \E r \in InFlight : UpdateUserSave(r)
    \/ \E b \in Bearers : Logout(b)
    \/ \E b \in Bearers : GetMeAuth(b)
    \/ \E r \in InFlight : GetMeFind(r)
    \/ \E b \in Bearers, body \in {RequiredBody, NoProfile} : UpdateProfileAuth(b, body)
    \/ \E r \in InFlight : UpdateProfileUpdate(r)
    \/ \E b \in Bearers, route \in GateRoutes : AdminRouteAuth(b, route)
    \/ \E r \in InFlight : AdminRouteRun(r)
    \/ \E r \in InFlight : GetAllUsersFind(r)

\* The operations that issue a token, and deleteAccount.
MintNext ==
    \/ \E c \in GateBodies : RegisterFind(c[1], c[2])
    \/ \E r \in InFlight : RegisterCreateUser(r)
    \/ \E r \in InFlight : RegisterCreateOtp(r, 0)
    \/ \E r \in InFlight : RegisterSendMail(r, TRUE)
    \/ ConfirmFindOtp(EmailA, generateOTP(0))
    \/ \E r \in InFlight : ConfirmUpdateUser(r)
    \/ \E r \in InFlight : ConfirmDeleteOtp(r)
    \/ \E c \in GateCredentials : Login(c[1], c[2])
    \/ \E c \in GateCredentials : AdminLogin(c[1], c[2])
    \/ \E token \in PresentedTokens : DeleteAccountAuth(token)
    \/ \E r \in InFlight : DeleteAccountFind(r)
    \/ \E r \in InFlight : DeleteAccountDelete(r)
    \/ \E r \in InFlight : DeleteAccountDeleteOtps(r)

\* The two ways an account is deleted, and getMe with the tokens issued.
DeletionNext ==
    \/ \E c \in GateBodies : RegisterFind(c[1], c[2])
    \/ \E r \in InFlight : RegisterCreateUser(r)
    \/ \E r \in InFlight : RegisterCreateOtp(r, 0)
    \/ \E r \in InFlight : RegisterSendMail(r, TRUE)
    \/ \E c \in GateCredentials : Login(c[1], c[2])
    \/ \E token \in PresentedTokens, target \in TargetTexts : DeleteUserAuth(token, target)
    \/ \E r \in InFlight : DeleteUserDelete(r)
    \/ \E token \in PresentedTokens : DeleteAccountAuth(token)
    \/ \E r \in InFlight : DeleteAccountFind(r)
    \/ \E r \in InFlight : DeleteAccountDelete(r)
    \/ \E r \in InFlight : DeleteAccountDeleteOtps(r)
    \/ \E b \in Bearers : GetMeAuth(b)
    \/ \E r \in InFlight : GetMeFind(r)

\* The operations that change an account and leave it in the store, sent
\* with the tokens issued.
MutationNext ==
    \/ \E c \in GateBodies : RegisterFind(c[1], c[2])
    \/ \E r \in InFlight : RegisterCreateUser(r)
    \/ \E r \in InFlight : RegisterCreateOtp(r, 0)
    \/ \E r \in InFlight : RegisterSendMail(r, TRUE)
    \/ ResendFind(EmailA)
    \/ \E r \in InFlight : ResendDeleteMany(r)
    \/ \E r \in InFlight : ResendCreateOtp(r, 0)
    \/ \E r \in InFlight : ResendSendMail(r, TRUE)
    \/ ConfirmFindOtp(EmailA, generateOTP(0))
    \/ \E r \in InFlight : ConfirmUpdateUser(r)
    \/ \E r \in InFlight : ConfirmDeleteOtp(r)
    \/ \E c \in GateCredentials : Login(c[1], c[2])
    \/ \E token \in tokens, target \in {toString(u.id) : u \in users}, role \in BodyRoles :
          UpdateUserAuth(token, target, role)
    \/ \E r \in InFlight : UpdateUserFind(r)
    \/ \E r \in InFlight : UpdateUserSave(r)
    \/ \E t \in tokens : Logout(Minted(t))
    \/ \E t \in tokens : UpdateProfileAuth(Minted(t), RequiredBody)
    \/ \E r \in InFlight : UpdateProfileUpdate(r)

\* The account lifecycle with one request at a time: a request starts when
\* none is in flight, and time passes between requests.
SerialNext ==
    \/ reqs = EmptyBag /\ \E c \in RegisterBodies : RegisterFind(c[1], c[2])
    \/ \E r \in InFlight : RegisterCreateUser(r)
    \/ \E r \in InFlight, k \in RandomDraws : RegisterCreateOtp(r, k)
    \/ \E r \in InFlight, delivered \in BOOLEAN : RegisterSendMail(r, delivered)
    \/ reqs = EmptyBag /\ \E email \in RawEmails : ResendFind(email)
    \/ \E r \in InFlight : ResendDeleteMany(r)
    \/ \E r \in InFlight, k \in RandomDraws : ResendCreateOtp(r, k)
    \/ \E r \in InFlight, delivered \in BOOLEAN : ResendSendMail(r, delivered)
    \/ reqs = EmptyBag /\ \E c \in CodeInputs : ConfirmFindOtp(c[1], c[2])
    \/ \E r \in InFlight : ConfirmUpdateUser(r)
    \/ \E r \in InFlight : ConfirmDeleteOtp(r)
    \/ reqs = EmptyBag /\ \E token \in PresentedTokens : DeleteAccountAuth(token)
    \/ \E r \in InFlight : DeleteAccountFind(r)
    \/ \E r \in InFlight : DeleteAccountDelete(r)
    \/ \E r \in InFlight : DeleteAccountDeleteOtps(r)
    \/ reqs = EmptyBag /\ Tick
    \/ reqs = EmptyBag /\ Purge

\* register and resendOTP alone: the requests that create OTP records.
ResendNext ==
    \/ \E c \in GateBodies : RegisterFind(c[1], c[2])
    \/ \E r \in InFlight : RegisterCreateUser(r)
    \/ \E r \in InFlight, k \in RandomDraws : RegisterCreateOtp(r, k)
    \/ \E r \in InFlight, delivered \in BOOLEAN : RegisterSendMail(r, delivered)
    \/ \E email \in RawEmails : ResendFind(email)
    \/ \E r \in InFlight : ResendDeleteMany(r)
    \/ \E r \in InFlight, k \in RandomDraws : ResendCreateOtp(r, k)
    \/ \E r \in InFlight, delivered \in BOOLEAN : ResendSendMail(r, delivered)

\* The profile routes: updateProfile with every body and getMe, with
\* register and login issuing the tokens and deleteAccount.
ProfileNext ==
    \/ \E c \in GateBodies : RegisterFind(c[1], c[2])
    \/ \E r \in InFlight : RegisterCreateUser(r)
    \/ \E r \in InFlight : RegisterCreateOtp(r, 0)
    \/ \E r \in InFlight : RegisterSendMail(r, TRUE)
    \/ \E c \in GateCredentials : Login(c[1], c[2])
    \/ \E b \in {NoBearer} \cup {Minted(t) : t \in tokens}, body \in ProfileBodies :
          UpdateProfileAuth(b, body)
    \/ \E r \in InFlight : UpdateProfileUpdate(r)
    \/ \E t \in tokens : GetMeAuth(Minted(t))
    \/ \E r \in InFlight : GetMeFind(r)
    \/ \E token \in tokens : DeleteAccountAuth(token)
    \/ \E r \in InFlight : DeleteAccountFind(r)
    \/ \E r \in InFlight : DeleteAccountDelete(r)
    \/ \E r \in InFlight : DeleteAccountDeleteOtps(r)

\* The operations that answer with an account or a list of accounts, one
\* request at a time.
ResponseNext ==
    \/ reqs = EmptyBag /\ \E c \in GateBodies : RegisterFind(c[1], c[2])
    \/ \E r \in InFlight : RegisterCreateUser(r)
    \/ \E r \in InFlight : RegisterCreateOtp(r, 0)
    \/ \E r \in InFlight : RegisterSendMail(r, TRUE)
    \/ reqs = EmptyBag /\ ConfirmFindOtp(EmailA, generateOTP(0))
    \/ \E r \in InFlight : ConfirmUpdateUser(r)
    \/ \E r \in InFlight : ConfirmDeleteOtp(r)
    \/ reqs = EmptyBag /\ \E c \in GateCredentials : Login(c[1], c[2])
    \/ reqs = EmptyBag /\ \E c \in GateCredentials : AdminLogin(c[1], c[2])
    \/ reqs = EmptyBag /\ \E t \in tokens : UpdateProfileAuth(Minted(t), FullBody)
    \/ \E r \in InFlight : UpdateProfileUpdate(r)
    \/ reqs = EmptyBag /\ \E t \in tokens : GetMeAuth(Minted(t))
    \/ \E r \in InFlight : GetMeFind(r)
    \/ reqs = EmptyBag /\ \E t \in tokens : AdminRouteAuth(Minted(t), "getAllUsers")
    \/ \E r \in InFlight : GetAllUsersFind(r)
    \/ reqs = EmptyBag /\ \E token \in tokens, target \in TargetIds :
          GetUserByIdAuth(token, target)
    \/ \E r \in InFlight : GetUserByIdFind(r)
    \/ reqs = EmptyBag /\ \E token \in tokens, target \in TargetIds, role \in BodyRoles :
          UpdateUserAuth(token, target, role)
    \/ \E r \in InFlight : UpdateUserFind(r)
    \/ \E r \in InFlight : UpdateUserSave(r)

\* An email registered, its account deleted by an admin or by its owner, and
\* the email registered again, one request at a time.
ReuseNext ==
    \/ reqs = EmptyBag /\ \E c \in GateBodies : RegisterFindUpTo(c[1], c[2], MaxReused)
    \/ \E r \in InFlight : RegisterCreateUser(r)
    \/ \E r \in InFlight, k \in RandomDraws : RegisterCreateOtp(r, k)
    \/ \E r \in InFlight : RegisterSendMail(r, TRUE)
    \/ reqs = EmptyBag /\ ResendFind(EmailA)
    \/ \E r \in InFlight : ResendDeleteMany(r)
    \/ \E r \in InFlight, k \in RandomDraws : ResendCreateOtp(r, k)
    \/ \E r \in InFlight : ResendSendMail(r, TRUE)
    \/ reqs = EmptyBag /\ \E otp \in Codes : ConfirmFindOtp(EmailA, otp)
    \/ \E r \in InFlight : ConfirmUpdateUser(r)
    \/ \E r \in InFlight : ConfirmDeleteOtp(r)
    \/ reqs = EmptyBag /\ Login(AdminEmail, AdminPassword)
    \/ reqs = EmptyBag /\ \E token \in tokens, target \in TargetIds :
          DeleteUserAuth(token, target)
    \/ \E r \in InFlight : DeleteUserDelete(r)
    \/ reqs = EmptyBag /\ \E token \in tokens : DeleteAccountAuth(token)
    \/ \E r \in InFlight : DeleteAccountFind(r)
    \/ \E r \in InFlight : DeleteAccountDelete(r)
    \/ \E r \in InFlight : DeleteAccountDeleteOtps(r)

\* Role changes between the requests to the admin routes, one request at a
\* time: register issues the token of the registered account, adminLogin with
\* the seeded credentials the token of the seeded account.
RoleNext ==
    \/ reqs = EmptyBag /\ \E c \in GateBodies : RegisterFind(c[1], c[2])
    \/ \E r \in InFlight : RegisterCreateUser(r)
    \/ \E r \in InFlight : RegisterCreateOtp(r, 0)
    \/ \E r \in InFlight : RegisterSendMail(r, TRUE)
    \/ reqs = EmptyBag /\ AdminLogin(AdminEmail, AdminPassword)
    \/ reqs = EmptyBag /\ \E token \in tokens, target \in TargetIds, role \in BodyRoles :
          UpdateUserAuth(token, target, role)
    \/ \E r \in InFlight : UpdateUserFind(r)
    \/ \E r \in InFlight : UpdateUserSave(r)
    \/ reqs = EmptyBag /\ \E t \in tokens, route \in GateRoutes :
          AdminRouteAuth(Minted(t), route)
    \/ \E r \in InFlight : AdminRouteRun(r)
    \/ \E r \in InFlight : GetAllUsersFind(r)

\* The first step of a request to a lifecycle operation or to a gated one,
\* taken while no request is in flight.
OutcomeArrival ==
    /\ reqs = EmptyBag
    /\ \/ \E c \in GateBodies : RegisterFind(c[1], c[2])
       \/ ResendFind(EmailA)
       \/ \E otp \in Codes : ConfirmFindOtp(EmailA, otp)
       \/ Login(AdminEmail, AdminPassword)
       \/ \E b \in Bearers : GetMeAuth(b)
       \/ \E token \in tokens, target \in TargetIds : DeleteUserAuth(token, target)
       \/ \E token \in tokens : DeleteAccountAuth(token)

\* A store or mail call of the request in flight returns and its handler runs
\* up to the next one or up to the response.
OutcomeHandling ==
    \/ \E r \in InFlight : RegisterCreateUser(r)
    \/ \E r \in InFlight : RegisterCreateOtp(r, 0)
    \/ \E r \in InFlight, delivered \in BOOLEAN : RegisterSendMail(r, delivered)
    \/ \E r \in InFlight : ResendDeleteMany(r)
    \/ \E r \in InFlight : ResendCreateOtp(r, 0)
    \/ \E r \in InFlight, delivered \in BOOLEAN : ResendSendMail(r, delivered)
    \/ \E r \in InFlight : ConfirmUpdateUser(r)
    \/ \E r \in InFlight : ConfirmDeleteOtp(r)
    \/ \E r \in InFlight : GetMeFind(r)
    \/ \E r \in InFlight : DeleteUserDelete(r)
    \/ \E r \in InFlight : DeleteAccountFind(r)
    \/ \E r \in InFlight : DeleteAccountDelete(r)
    \/ \E r \in InFlight : DeleteAccountDeleteOtps(r)

\* The lifecycle and the gated operations, one request at a time.
OutcomeNext == OutcomeArrival \/ OutcomeHandling

\* The unauthenticated and the self-service operations and updateUser, one
\* request at a time.
AccountNext ==
    \/ reqs = EmptyBag /\ \E c \in GateBodies : RegisterFind(c[1], c[2])
    \/ \E r \in InFlight : RegisterCreateUser(r)
    \/ \E r \in InFlight : RegisterCreateOtp(r, 0)
    \/ \E r \in InFlight, delivered \in BOOLEAN : RegisterSendMail(r, delivered)
    \/ reqs = EmptyBag /\ ResendFind(EmailA)
    \/ \E r \in InFlight : ResendDeleteMany(r)
    \/ \E r \in InFlight : ResendCreateOtp(r, 0)
    \/ \E r \in InFlight, delivered \in BOOLEAN : ResendSendMail(r, delivered)
    \/ reqs = EmptyBag /\ \E c \in CodeInputs : ConfirmFindOtp(c[1], c[2])
    \/ \E r \in InFlight : ConfirmUpdateUser(r)
    \/ \E r \in InFlight : ConfirmDeleteOtp(r)
    \/ reqs = EmptyBag /\ \E c \in GateCredentials : Login(c[1], c[2])
    \/ reqs = EmptyBag /\ \E c \in GateCredentials : AdminLogin(c[1], c[2])
    \/ reqs = EmptyBag /\ \E t \in tokens, body \in {RequiredBody, NoProfile} :
          UpdateProfileAuth(Minted(t), body)
    \/ \E r \in InFlight : UpdateProfileUpdate(r)
    \/ reqs = EmptyBag /\ \E t \in tokens : GetMeAuth(Minted(t))
    \/ \E r \in InFlight : GetMeFind(r)
    \/ reqs = EmptyBag /\ \E t \in tokens : Logout(Minted(t))
    \/ reqs = EmptyBag /\ \E token \in tokens : DeleteAccountAuth(token)
    \/ \E r \in InFlight : DeleteAccountFind(r)
    \/ \E r \in InFlight : DeleteAccountDelete(r)
    \/ \E r \in InFlight : DeleteAccountDeleteOtps(r)
    \/ reqs = EmptyBag /\ \E token \in tokens, target \in TargetIds, role \in BodyRoles,
                              confirm \in ConfirmBodies :
          UpdateUserAuthBody(token, target, role, confirm)
    \/ \E r \in InFlight : UpdateUserFind(r)
    \/ \E r \in InFlight : UpdateUserSave(r)

Next == LifecycleNext \/ AccessNext \/ AdminNext \/ GateNext

Spec == Init /\ [][Next]_vars
LifecycleSpec == Init /\ [][LifecycleNext]_vars
AccessSpec == Init /\ [][AccessNext]_vars
GateSpec == Init /\ [][GateNext]_vars
MintSpec == Init /\ [][MintNext]_vars
DeletionSpec == Init /\ [][DeletionNext]_vars
MutationSpec == Init /\ [][MutationNext]_vars
SerialSpec == Init /\ [][SerialNext]_vars
ResendSpec == Init /\ [][ResendNext]_vars
ProfileSpec == Init /\ [][ProfileNext]_vars
ResponseSpec == Init /\ [][ResponseNext]_vars
AccountSpec == Init /\ [][AccountNext]_vars
ReuseSpec == Init /\ [][ReuseNext]_vars
RoleSpec == Init /\ [][RoleNext]_vars
\* Every store and mail call returns: the handler of the request in flight
\* goes on whenever it can.
OutcomeSpec == Init /\ [][OutcomeNext]_vars /\ WF_vars(OutcomeHandling)

(***************************************************************************)
(* Properties.                                                             *)
(***************************************************************************)
\* The request answered by the step just taken is one of operation op.
Done(op) == last.op = op /\ last.pc = "done"
DoneNext(op) == last'.op = op /\ last'.pc = "done"
\* The one response of the generic credentials error.
InvalidCredentials == errorHandler(AppError(401, "auth.invalidCredentials"))

\* C1: a Register with a valid body that found no account for the email
\* creates the account and returns 201; one that found an account for the
\* email returns 409 and creates no account.
C1_RegisterOncePerEmail ==
    (Done("register") /\ registerValidate(last.email, last.password) = NoError) =>
        IF last.hadUser
        THEN last.resp.status = 409 /\ last.created = NoId
        ELSE last.resp.status = 201 /\ last.created # NoId

\* C2: the store never holds two accounts with the same email, whatever the
\* interleaving of the find and create steps of concurrent Register requests.
C2_EmailsUnique == \A u, v \in users : u.email = v.email => u = v
\* A Register lost the race: it found no account, and its create was refused.
C2_RaceLost ==
    /\ Done("register") /\ ~last.hadUser /\ last.calls = 2
    /\ last.resp.status = 500 /\ last.created = NoId
    /\ \E u \in users : u.email = normalizeEmail(last.email)

\* C3: a Register whose password is shorter than 8 is answered 400 by a step
\* that makes no store or mail call and changes nothing in the store.
C3_ShortPasswordRejected ==
    [][(DoneNext("register") /\ Len(last'.password) < 8) =>
          /\ last'.resp.status = 400
          /\ last'.calls = 0
          /\ UNCHANGED <<users, otps, tokens, nextUserId, nextOtpId>>]_vars
\* A short password was rejected while the store held an account for the email.
C3_ShortRejected ==
    /\ Done("register") /\ last.password = "short" /\ last.resp.status = 400
    /\ \E u \in users : u.email = normalizeEmail(last.email)

C5_RepeatGetsInvalidCode ==
    (Done("confirmOTP") /\ last.resp.status = 200) =>
        \A o \in FindOneOtp(OtpFind(otps, last.email, last.otp)) :
            confirmOtpCheck(o) = AppError(400, "auth.invalidOTP")
\* C5 amended: once a ConfirmOTP has succeeded, the record it matched is
\* matched by no repeated ConfirmOTP; the repeat gets InvalidCode unless
\* another record with the same email and code is stored.
C5_MatchedRecordGone ==
    (Done("confirmOTP") /\ last.resp.status = 200) =>
        \A o \in OtpFind(otps, last.email, last.otp) : o.id # last.otpId
\* A ConfirmOTP succeeded and a second record with its email and code remains.
C5_SiblingRemains ==
    /\ Done("confirmOTP") /\ last.resp.status = 200
    /\ \E o \in OtpFind(otps, last.email, last.otp) : o.id # last.otpId

\* C6: no ConfirmOTP succeeds on an OTP record on which another ConfirmOTP
\* has succeeded before.
C6_AtMostOneSuccessPerRecord ==
    ~(Done("confirmOTP") /\ last.resp.status = 200 /\ last.again)

\* C7: no ConfirmOTP succeeds on an OTP record that was older than the time to
\* live when the lookup matched it.
C7_NoMatchAfterTtl ==
    ~(Done("confirmOTP") /\ last.resp.status = 200 /\ last.stale)

\* C8: Register creates the account with emailConfirmed = false and its 201
\* carries a token; a ConfirmOTP answered InvalidCode changes neither the
\* accounts nor the OTP records; a ConfirmOTP that matched sets
\* emailConfirmed = true, and its 200 carries a token and the confirmed
\* account, the record it matched being out of the store.
C8_RegisterThenConfirm ==
    [][/\ \A u \in users' : (\A v \in users : v.id # u.id) => ~u.isEmailConfirmed
       /\ (DoneNext("register") /\ last'.resp.status = 201) =>
              /\ last'.resp.token = generateToken(last'.created)
              /\ last'.resp.token \in tokens' /\ last'.resp.token # NoId
              /\ ~last'.resp.user.isEmailConfirmed
       /\ (DoneNext("confirmOTP") /\ last'.resp.key = "auth.invalidOTP") =>
              /\ last'.resp.status = 400
              /\ UNCHANGED <<users, otps>>
       /\ \A q \in BagToSet(reqs') :
              (q.op = "confirmOTP" /\ q.pc = "deleteOtp" /\ q \notin InFlight) =>
                  \E u \in users' : /\ u.email = normalizeEmail(q.email)
                                     /\ u.id = q.found /\ u.isEmailConfirmed
       /\ (DoneNext("confirmOTP") /\ last'.resp.status = 200) =>
              /\ last'.resp.token \in tokens' /\ last'.resp.token # NoId
              /\ last'.resp.user.isEmailConfirmed
              /\ \A o \in otps' : o.id # last'.otpId]_vars
\* A ConfirmOTP succeeded on the account a Register created.
C8_Confirmed ==
    /\ Done("confirmOTP") /\ last.resp.status = 200 /\ last.resp.token # NoId
    /\ \E u \in users : u.id = last.found /\ u.id # SuperAdmin.id /\ u.isEmailConfirmed
    /\ \A o \in otps : o.id # last.otpId

C10_FindRolePassword ==
    (Done("adminLogin") /\ last.email # NoEmail /\ last.password # "") =>
        IF ~last.hadUser THEN last.resp = InvalidCredentials
        ELSE IF last.hadRole \notin {"admin", "superAdmin"}
        THEN last.resp = errorHandler(AppError(403, "auth.unauthorized"))
        ELSE IF ~last.pwOk THEN last.resp = InvalidCredentials
        ELSE /\ last.resp.status = 200
             /\ last.resp.token = generateToken(last.found) /\ last.resp.token # NoId
\* An AdminLogin with the right password of a plain user was answered 403.
C10_UserWithRightPassword ==
    /\ Done("adminLogin") /\ last.hadUser /\ last.hadRole = "user" /\ last.pwOk
    /\ last.resp.status = 403

\* A request to an admin route whose token authenticate resolved to an account.
ResolvedAdminRequest(r) ==
    /\ r.op \in PlainAdminRoutes
    /\ r.bearer.present /\ jwtVerify(r.bearer) = ""
    /\ r.hadUser

\* C11: a request to an admin route whose token resolves to an account of role
\* user is answered 403 auth.unauthorized by requireAdmin and does not enter
\* the handler; one whose account has role admin or superAdmin enters the
\* handler, the same way for both roles.
C11_RequireAdminByRole ==
    \A r \in InFlight \cup {last} :
        ResolvedAdminRequest(r) =>
            IF r.hadRole \in {"admin", "superAdmin"}
            THEN /\ r.uid = r.bearer.id
                 /\ r.pc \in {"handler", "done"}
                 /\ r.pc = "done" => r.resp = Success(200, r.op, NoId, NoUser)
            ELSE /\ r.uid = NoId
                 /\ r.pc = "done"
                 /\ r.resp = errorHandler(AppError(403, "auth.unauthorized"))

\* An account promoted to admin is in the handler of an admin route, and,
\* after it was set back to user, is answered 403 on its next request.
C11_AdminThroughUserRefused ==
    /\ ResolvedAdminRequest(last) /\ last.hadRole = "user" /\ last.resp.status = 403
    /\ \E r \in InFlight : ResolvedAdminRequest(r) /\ r.hadRole = "admin"
                           /\ r.pc = "handler" /\ r.bearer = last.bearer

\* The gated operations: behind authenticate and requireAdmin, and behind
\* authenticate alone.
AdminOps == AdminRoutes
SelfOps == {"logout", "getMe", "updateProfile", "deleteAccount"}
\* The request q takes its first step, the gate, in this step.
GateStep(q) ==
    \/ /\ BagCardinality(reqs') > BagCardinality(reqs)
       /\ q \in BagToSet(reqs') /\ CopiesIn(q, reqs') > CopiesIn(q, reqs)
    \/ /\ reqs' = reqs /\ last' # NoReq /\ q = last'
\* The id of the token q presents if it is a token generateToken issued and
\* it is within its lifetime; NoId otherwise.
ValidTokenId(q) ==
    IF q.token \in tokens THEN q.token
    ELSE IF q.bearer.id \in tokens /\ q.bearer = Minted(q.bearer.id) THEN q.bearer.id
    ELSE NoId

\* C12: when the gate lets a request into the handler of an admin route, the
\* request presented a valid token, the store holds an account with the id of
\* the token, and the role of that account is admin or superAdmin at that
\* moment; for a self-service route the first two hold.  A request to a gated
\* route that presents no token is answered 401 auth.tokenRequired.
C12_PrivilegeTiers ==
    [][\A q \in BagToSet(reqs') \cup {last'} :
          (GateStep(q) /\ q.op \in AdminOps \cup SelfOps) =>
              /\ q.uid # NoId =>
                    /\ ValidTokenId(q) # NoId /\ q.uid = ValidTokenId(q)
                    /\ \E u \in users :
                          /\ u.id = q.uid
                          /\ q.op \in AdminOps => u.role \in {"admin", "superAdmin"}
              /\ (q.token = NoId /\ ~q.bearer.present) =>
                    /\ q = last' /\ q.uid = NoId
                    /\ q.resp = errorHandler(AppError(401, "auth.tokenRequired"))]_vars

\* The handler of an admin route runs for the registered account, promoted
\* to admin, while the handler of a self-service route runs as well.
C12_TiersEntered ==
    /\ \E r \in InFlight : r.op \in AdminOps /\ r.uid \notin {NoId, SuperAdmin.id}
    /\ \E r \in InFlight : r.op \in SelfOps /\ r.uid # NoId

\* The operations that answer with a token.
MintingOps == {"register", "confirmOTP", "login", "adminLogin"}

\* C13: the token in the response of register, confirmOTP, login or
\* adminLogin, presented at once within its lifetime while the account it was
\* issued for is in the store, passes authenticate, and the account
\* authenticate attaches is the account of the response.
C13_MintedTokenResolves ==
    (/\ last.op \in MintingOps /\ last.pc = "done" /\ last.resp.token # NoId
     /\ \E u \in users : u.id = last.resp.user.id)
        => /\ authenticateBearer(users, Minted(last.resp.token)) = NoError
           /\ AttachedBearer(users, Minted(last.resp.token)).id = last.resp.user.id
           /\ AttachedBearer(users, Minted(last.resp.token)).email = last.resp.user.email
           /\ last.resp.user.email = normalizeEmail(last.email)

\* confirmOTP answered with a token for the registered account, which is in
\* the store.
C13_ConfirmMinted ==
    /\ Done("confirmOTP") /\ last.resp.token # NoId
    /\ \E u \in users : u.id = last.resp.user.id /\ u.id # SuperAdmin.id

\* C14: a request with a correctly signed token past its lifetime is answered
\* 401 auth.tokenExpired, one with a token that is no JWT or is signed with
\* another secret 401 auth.tokenInvalid, never the other way round; neither
\* gets an account attached nor enters a handler.
C14_ExpiredAndInvalidTold ==
    \A r \in InFlight \cup {last} :
        (r.op # "none" /\ r.bearer.present) =>
            /\ (r.bearer.wellFormed /\ r.bearer.signed /\ r.bearer.expired) =>
                  /\ r.pc = "done" /\ r.uid = NoId /\ r.calls = 0
                  /\ r.resp = errorHandler(AppError(401, "auth.tokenExpired"))
            /\ (~r.bearer.wellFormed \/ ~r.bearer.signed) =>
                  /\ r.pc = "done" /\ r.uid = NoId /\ r.calls = 0
                  /\ r.resp = errorHandler(AppError(401, "auth.tokenInvalid"))

\* The token of the registered account, past its lifetime, was refused on an
\* admin route.
C14_OutlivedRefused ==
    /\ last.op \in PlainAdminRoutes /\ last.pc = "done"
    /\ last.bearer.id # SuperAdmin.id /\ last.bearer = Outlived(last.bearer.id)
    /\ last.hadUser /\ last.resp.status = 401

\* C15: once the account of a token is deleted, by deleteAccount or by
\* deleteUser, every request that comes to authenticate with that token within
\* its lifetime is answered 404 auth.userNotFound, gets no account attached
\* and enters no handler.
C15_DeletedAccountRefused ==
    [][\A q \in BagToSet(reqs') \cup {last'} :
          (/\ GateStep(q) /\ q.op \in AdminOps \cup SelfOps
           /\ ValidTokenId(q) # NoId
           /\ UserFindById(users, ValidTokenId(q)) = {}) =>
              /\ q = last' /\ q.uid = NoId /\ q.calls = 1
              /\ q.resp = errorHandler(AppError(404, "auth.userNotFound"))]_vars

\* getMe with the token of the registered account, within its lifetime, was
\* refused by authenticate after the account was deleted.
C15_TokenOfDeletedRefused ==
    /\ Done("getMe") /\ last.bearer.id \in tokens
    /\ last.bearer = Minted(last.bearer.id)
    /\ UserFindById(users, last.bearer.id) = {}
    /\ last.calls = 1 /\ last.resp.status = 404

\* A step of the handler of r, a request in flight that has passed its gate;
\* the step deleteAccount takes after it deleted its own account is left out.
HandlerStep(r) ==
    /\ r \in InFlight /\ r.uid # NoId /\ r.op \in AdminOps \cup SelfOps
    /\ r.pc # "deleteOtps"
    /\ CopiesIn(r, reqs') < CopiesIn(r, reqs)

\* The statement of C15 with its conclusion taken of every request: requests
\* with the token of a deleted account are refused by authenticate, and no
\* handler of a gated route takes a step for an account that is deleted.
C15_NothingRunsForDeleted ==
    [][/\ \A q \in BagToSet(reqs') \cup {last'} :
             (/\ GateStep(q) /\ q.op \in AdminOps \cup SelfOps
              /\ ValidTokenId(q) # NoId
              /\ UserFindById(users, ValidTokenId(q)) = {}) =>
                 /\ q = last' /\ q.uid = NoId
                 /\ q.resp = errorHandler(AppError(404, "auth.userNotFound"))
       /\ \A r \in InFlight : HandlerStep(r) => UserFindById(users, r.uid) # {}]_vars

\* C16: while accounts are changed by updateProfile, confirmOTP, resendOTP,
\* login, logout and updateUser (role changes included) and none is deleted,
\* every token issued so far, presented within its lifetime, passes
\* authenticate and has its account attached, and the requests sent with it
\* get through the gate.
C16_TokenOutlivesMutations ==
    /\ \A t \in tokens :
          /\ authenticateBearer(users, Minted(t)) = NoError
          /\ AttachedBearer(users, Minted(t)).id = t
    /\ \A r \in InFlight \cup {last} :
          r.op \in {"logout", "updateProfile"} => r.uid = r.bearer.id /\ r.uid \in tokens

\* The registered account was sent a second code, confirmed, completed and
\* promoted to admin, and its logout is answered 200.
C16_MutatedAccountPasses ==
    \E u \in users :
        /\ u.id # SuperAdmin.id /\ u.role = "admin"
        /\ u.isEmailConfirmed /\ u.isProfileComplete /\ nextOtpId > 2
        /\ Done("logout") /\ last.bearer = Minted(u.id) /\ last.resp.status = 200

\* C17: the step in which logout is answered changes no account and no OTP
\* record, and when it answers 200 the token it was called with still passes
\* authenticate and resolves to the same account.
C17_LogoutChangesNothing ==
    [][(last'.op = "logout" /\ last'.pc = "done") =>
          /\ users' = users /\ otps' = otps
          /\ last'.resp.status = 200 =>
                /\ authenticateBearer(users', last'.bearer) = NoError
                /\ AttachedBearer(users', last'.bearer).id = last'.uid]_vars

\* logout of the registered account, whose OTP record is in the store, was
\* answered 200.
C17_LoggedOut ==
    /\ Done("logout") /\ last.resp = Success(200, "auth.logoutSuccess", NoId, NoUser)
    /\ \E u \in users : /\ u.id = last.uid /\ u.id # SuperAdmin.id
                        /\ \E o \in otps : o.email = u.email

\* The OTP records of the store os for an email.
OtpsOf(os, email) == {o \in os : o.email = normalizeEmail(email)}

\* C18: with one request at a time, resendOTP for an email of no account is
\* answered 404 auth.userNotFound and leaves the OTP records as they are; for
\* the email of an account it ends with exactly one OTP record for the email
\* in the store, the one it created.
C18_ResendAloneLeavesOne ==
    [][(last'.op = "resendOTP" /\ last'.pc = "done" /\ last'.email # NoEmail) =>
          IF ~last'.hadUser
          THEN /\ last'.resp = errorHandler(AppError(404, "auth.userNotFound"))
               /\ otps' = otps
          ELSE /\ last'.calls = 4
               /\ \E o \in otps' : /\ OtpsOf(otps', last'.email) = {o}
                                   /\ o.id = last'.otpId /\ o.age = 0]_vars

\* resendOTP for the registered account has replaced the record register
\* created and was answered 200.
C18_Resent ==
    /\ Done("resendOTP") /\ last.resp = Success(200, "auth.otpResent", NoId, NoUser)
    /\ last.otpId = 2 /\ Cardinality(OtpsOf(otps, last.email)) = 1

\* The two store calls of a resendOTP, Otp.deleteMany and Otp.create, as
\* functions of the store; step is the number of calls the request has made.
ResendStoreCall(os, step, email, id) ==
    IF step = 0 THEN OtpDeleteMany(os, email)
    ELSE os \cup {NewOtp(id, email, generateOTP(0))}
\* The stores two resendOTP requests for one email can leave behind, over
\* every interleaving of their store calls; a and b count the calls made.
RECURSIVE ResendRuns(_, _, _, _)
ResendRuns(os, a, b, email) ==
    IF a = 2 /\ b = 2 THEN {os}
    ELSE (IF a < 2 THEN ResendRuns(ResendStoreCall(os, a, email, nextOtpId + a + b),
                                   a + 1, b, email)
          ELSE {})
         \cup
         (IF b < 2 THEN ResendRuns(ResendStoreCall(os, b, email, nextOtpId + a + b),
                                   a, b + 1, email)
          ELSE {})
\* The numbers of records for the email they can leave behind.
ResendOutcomes(os, email) ==
    {Cardinality(OtpsOf(s, email)) : s \in ResendRuns(os, 0, 0, email)}

\* C19 as stated: two concurrent resendOTP requests for an email can leave
\* no record, one record, and more than one record for it.
C19_ZeroOneOrMany ==
    \A u \in users :
        /\ 0 \in ResendOutcomes(otps, u.email)
        /\ 1 \in ResendOutcomes(otps, u.email)
        /\ \E n \in ResendOutcomes(otps, u.email) : n > 1

\* C19: concurrent resendOTP requests for an email can leave one record or
\* more than one record for it, and when the last of them has completed at
\* least one record for the email is in the store.
C19_OneOrManyNeverZero ==
    /\ \A u \in users : ResendOutcomes(otps, u.email) = {1, 2}
    /\ (reqs = EmptyBag /\ Done("resendOTP") /\ last.calls = 4) =>
           Cardinality(OtpsOf(otps, last.email)) >= 1

\* Two resendOTP requests for one email have both completed and left two
\* records for it.
C19_TwoRecordsLeft ==
    /\ reqs = EmptyBag /\ Done("resendOTP") /\ last.calls = 4
    /\ Cardinality(OtpsOf(otps, last.email)) = 2

\* C20: a register whose mail dispatch fails is answered with the error of
\* the dispatch, status 500 and no token, and the step removes neither the
\* account nor the OTP record the request created; a register that then finds
\* the account for its email is answered 409 auth.userExists and creates
\* nothing.
C20_MailFailureNoRollback ==
    [][/\ (last'.op = "register" /\ last'.pc = "done" /\ last'.calls = 4
           /\ last'.resp.status # 201) =>
              /\ last'.resp = errorHandler(PlainError("Failed to send OTP email"))
              /\ last'.resp.status = 500 /\ last'.resp.token = NoId
              /\ last'.created # NoId /\ last'.otpId # NoId
              /\ users' = users /\ otps' = otps /\ tokens' = tokens
       /\ (last'.op = "register" /\ last'.pc = "done" /\ last'.calls = 1) =>
              /\ HasUser(last'.email)
              /\ last'.resp = errorHandler(AppError(409, "auth.userExists"))
              /\ last'.created = NoId /\ users' = users /\ otps' = otps]_vars

\* The account and the OTP record of a register whose mail dispatch failed
\* are in the store, no token was issued for the account, and a register for
\* its email was answered 409.
C20_OrphanConflicts ==
    /\ reqs = EmptyBag /\ Done("register") /\ last.resp.status = 409
    /\ last.found \notin tokens \cup {NoId, SuperAdmin.id}
    /\ UserFindById(users, last.found) # {}
    /\ OtpsOf(otps, last.email) # {}

\* C21: deleteAccount answered 200 has removed the account of the caller, and
\* with nothing left in flight the OTP records of its email; a resendOTP that
\* found the account before it was deleted and completed after the deletion
\* leaves no OTP record for the email either.
C21_DeleteAccountLeavesNothing ==
    /\ (Done("deleteAccount") /\ last.resp.status = 200) =>
           /\ UserFindById(users, last.uid) = {}
           /\ reqs = EmptyBag => OtpsOf(otps, last.email) = {}
    /\ (reqs = EmptyBag /\ Done("resendOTP") /\ last.calls = 4
        /\ UserFindById(users, last.found) = {}) =>
           OtpsOf(otps, last.email) = {}

\* C22: when deleteAccount or deleteUser has answered 200 and nothing is in
\* flight, every OTP record in the store is for the email of an account in
\* the store.
C22_NoOtpWithoutAccount ==
    (/\ reqs = EmptyBag /\ last.op \in {"deleteAccount", "deleteUser"}
     /\ last.pc = "done" /\ last.resp.status = 200)
        => \A o \in otps : \E u \in users : u.email = o.email

\* C23: a deleteUser whose route parameter denotes the id of the caller is
\* answered by the self-delete guard with 400 (or 403), makes no delete call,
\* and the account of the caller is in the store afterwards.
C23_SelfDeleteRejected ==
    (Done("deleteUser") /\ last.uid # NoId /\ castObjectId(last.target) = last.uid) =>
        /\ last.resp.status \in {400, 403}
        /\ last.calls = 1
        /\ UserFindById(users, last.uid) # {}

\* C24: in a production deployment with no JWT_SECRET set, no token is issued
\* for any account and no token signed with the default key is accepted.
C24_FailClosedInProduction ==
    \A env \in Envs, u \in users :
        (env.NODE_ENV = "production" /\ env.JWT_SECRET = "") =>
            /\ jwtSign(env, u.id) = NoToken
            /\ ~jwtVerifyKey(env, [id |-> u.id, key |-> DefaultSecret])

\* C25: login with the email of an account in the store and its password is
\* answered 200 with a token for that account, whatever isEmailConfirmed and
\* isProfileComplete of the account are, and authenticate accepts the token.
C25_LoginWhateverStatus ==
    (Done("login") /\ last.hadUser /\ last.pwOk) =>
        /\ last.resp.status = 200 /\ last.resp.key = "auth.loginSuccess"
        /\ last.resp.token = last.found /\ last.resp.token \in tokens
        /\ \A u \in users : u.id = last.found =>
              /\ u.email = normalizeEmail(last.email)
              /\ last.resp.user.isEmailConfirmed = u.isEmailConfirmed
              /\ last.resp.user.isProfileComplete = u.isProfileComplete
              /\ authenticateBearer(users, Minted(last.resp.token)) = NoError

\* login of an account whose email is not confirmed and whose profile is not
\* complete was answered with a token that authenticate accepts.
C25_UnconfirmedLoggedIn ==
    /\ Done("login") /\ last.resp.status = 200
    /\ \E u \in users : /\ u.id = last.resp.token
                        /\ ~u.isEmailConfirmed /\ ~u.isProfileComplete
    /\ authenticateBearer(users, Minted(last.resp.token)) = NoError

\* C26: updateProfile past the gate with name or dateOfBirth missing is
\* answered 400 and changes no account; otherwise, when the account is still
\* in the store, it is answered 200 and the account has isProfileComplete
\* true, the name and dateOfBirth of the body, its relationshipType when it
\* has one, its numberOfChildren or 0 when it has none, and nothing else of
\* that account and no other account is changed.
C26_UpdateProfileSets ==
    [][(last'.op = "updateProfile" /\ last'.pc = "done" /\ last'.uid # NoId) =>
          IF last'.body.name = "" \/ last'.body.dateOfBirth = ""
          THEN last'.resp.status = 400 /\ users' = users
          ELSE IF UserFindById(users, last'.uid) = {}
          THEN last'.resp.status = 404 /\ users' = users
          ELSE \E u \in users, v \in users' :
                 /\ u.id = last'.uid /\ v.id = u.id
                 /\ last'.resp.status = 200 /\ last'.resp.user = toObject(v)
                 /\ v.isProfileComplete
                 /\ v.profile.name = last'.body.name
                 /\ v.profile.dateOfBirth = last'.body.dateOfBirth
                 /\ last'.body.relationshipType # "" =>
                       v.profile.relationshipType = last'.body.relationshipType
                 /\ v.profile.numberOfChildren =
                       IF last'.body.numberOfChildren = NoNumber THEN 0
                       ELSE last'.body.numberOfChildren
                 /\ v.email = u.email /\ v.password = u.password /\ v.role = u.role
                 /\ v.isEmailConfirmed = u.isEmailConfirmed
                 /\ users' \ {v} = users \ {u}]_vars

\* updateProfile of the registered account with name and dateOfBirth alone
\* was answered 200: the profile is complete and numberOfChildren is 0.
C26_RequiredFieldsComplete ==
    /\ Done("updateProfile") /\ last.resp.status = 200 /\ last.body = RequiredBody
    /\ \E u \in users : /\ u.id = last.uid /\ u.id # SuperAdmin.id
                        /\ u.isProfileComplete /\ u.profile.numberOfChildren = 0


\* C27: getMe past the gate answers from its own read of the store: 200 with
\* the account as it is stored when the read is made, whatever the account
\* was when authenticate loaded it, and 404 when the account is no longer in
\* the store at that read; the read changes no account.
C27_GetMeReadsStore ==
    [][(last'.op = "getMe" /\ last'.pc = "done" /\ last'.uid # NoId) =>
          /\ users' = users
          /\ IF UserFindById(users, last'.uid) = {}
             THEN /\ last'.resp.status = 404
                  /\ last'.resp.key = "auth.userNotFound"
             ELSE \E u \in users :
                    /\ u.id = last'.uid
                    /\ last'.resp.status = 200
                    /\ last'.resp.user = toObject(u)]_vars

\* getMe was answered 200 with an account that differs from the one
\* authenticate attached to the request: updateProfile changed it in between.
C27_ChangedSinceGate ==
    /\ Done("getMe") /\ last.resp.status = 200
    /\ last.doc.id = last.uid
    /\ last.resp.user # toObject(last.doc)
    /\ \E u \in users : u.id = last.uid /\ last.resp.user = toObject(u)


\* An object of a response that has the field password.
HasSecret(x) == "password" \in DOMAIN x

\* C28: no response carries the password field of an account: not the
\* account of the responses of register, confirmOTP, login, adminLogin,
\* updateProfile, getMe, getUserById and updateUser, not an account of the
\* list of getAllUsers, and not a response of an error.
C28_NoSecretInResponse ==
    last.pc = "done" =>
        /\ ~HasSecret(last.resp.user)
        /\ \A d \in last.resp.data : ~HasSecret(d)

\* getMe answered 200 with the account of the caller, which authenticate had
\* attached to the request with its hashed password.
C28_AttachedWithSecret ==
    /\ Done("getMe") /\ last.resp.status = 200
    /\ HasSecret(last.doc) /\ last.doc.password = hashPassword(UserPassword)
    /\ last.resp.user.id = last.doc.id /\ ~HasSecret(last.resp.user)


\* C29: every error that reaches errorHandler is answered: an error with a
\* status code with that code and the translation of its key, an error with
\* none with 500 and its own message, error.internalServer when it has no
\* message; the body has the field stack in no production environment.
C29_ErrorsTranslated ==
    (last.pc = "done" /\ last.resp.thrown # NoError) =>
        /\ last.resp.status = IF last.resp.thrown.statusCode = 0 THEN 500
                              ELSE last.resp.thrown.statusCode
        /\ last.resp.key = IF last.resp.thrown.key = "" THEN "error.internalServer"
                           ELSE last.resp.thrown.key
        /\ last.resp.token = NoId /\ last.resp.user = NoUser /\ last.resp.data = {}
        /\ \A env \in last.resp.stack : env.NODE_ENV # "production"

\* register whose mail was not sent was answered 500 with the message of the
\* error sendOTPEmail threw.
C29_MailFailureOwnMessage ==
    /\ Done("register") /\ last.resp.status = 500
    /\ last.resp.thrown = PlainError("Failed to send OTP email")
    /\ last.resp.key = "Failed to send OTP email"

\* Every error that reaches errorHandler without a status code is answered
\* 500 with the message of error.internalServer.
C29_InternalFailureGeneric ==
    (last.pc = "done" /\ last.resp.thrown # NoError) =>
        /\ last.resp.status = IF last.resp.thrown.statusCode = 0 THEN 500
                              ELSE last.resp.thrown.statusCode
        /\ last.resp.thrown.statusCode = 0 => last.resp.key = "error.internalServer"
        /\ \A env \in last.resp.stack : env.NODE_ENV # "production"


\* C30: for every value of the random source generateOTP returns the decimal
\* text, 4 characters long, of an integer of 1000 .. 9999, and so is the code
\* of every OTP record in the store.
C30_FourDigitCode ==
    /\ \A k \in AllDraws :
          LET n == 1000 + ((k * 9000) \div RandomSteps) IN
            /\ n \in 1000 .. 9999
            /\ generateOTP(k) = ToString(n)
            /\ Len(generateOTP(k)) = 4
    /\ \A o \in otps : Len(o.otp) = 4 /\ o.otp \in Codes

\* The store holds a record with the code 1000 and a record with the code
\* 9999: the least and the greatest value of the random source were drawn.
C30_BothBoundsDrawn ==
    /\ \E o \in otps : o.otp = "1000" /\ o.otp = generateOTP(0)
    /\ \E o \in otps : o.otp = "9999" /\ o.otp = generateOTP(RandomSteps - 1)


\* C31: a confirmOTP answered 200 deletes no OTP record but the one its
\* Otp.findOne matched, which it deletes when it is still in the store, and
\* leaves every other record as it was.
C31_DeletesOnlyTheMatched ==
    [][(DoneNext("confirmOTP") /\ last'.resp.status = 200) =>
          /\ otps' = otps \ {o \in otps : o.id = last'.otpId}
          /\ Cardinality(otps \ otps') <= 1
          /\ \A o \in otps : o.id # last'.otpId => o \in otps']_vars

\* confirmOTP was answered 200 and a second record with the same email and
\* the same code as the one it matched is still in the store.
C31_DuplicateLeft ==
    /\ Done("confirmOTP") /\ last.resp.status = 200
    /\ \A o \in otps : o.id # last.otpId
    /\ \E o \in otps : o.email = normalizeEmail(last.email) /\ o.otp = last.otp

\* A confirmOTP answered 200 deletes one OTP record, the one its Otp.findOne
\* matched, and leaves every other record of the store as it was.
C31_DeletesExactlyTheMatched ==
    [][(DoneNext("confirmOTP") /\ last'.resp.status = 200) =>
          \E o \in otps : o.id = last'.otpId /\ otps' = otps \ {o}]_vars


\* A request of register or resendOTP.
IssuingRequest(r) == r.op \in {"register", "resendOTP"}

\* C32: in register and in resendOTP the OTP record is created by the step
\* that leads to the mail dispatch and not before, the dispatch is made by
\* no request that has not created its record, and a request is answered
\* 200 or 201 only when it has created its record and its dispatch has
\* returned; one whose dispatch failed is answered 500.
C32_StoreThenMailThenAnswer ==
    [][\A r \in BagToSet(reqs') \cup {last'} :
          IssuingRequest(r) =>
             /\ (r.pc = "sendMail" /\ r \notin InFlight) =>
                    \E o \in otps' \ otps : o.id = r.otpId /\ o.email = normalizeEmail(r.email)
             /\ r.mail # "none" => r.otpId # NoId /\ r.pc = "done"
             /\ (r.pc = "done" /\ r.resp.status \in {200, 201}) =>
                    r.otpId # NoId /\ r.mail = "sent" /\ r.calls = 4
             /\ r.mail = "failed" => r.resp.status = 500
             /\ r.pc # "done" => r.resp = NoResp]_vars

\* resendOTP was answered 200: its record is in the store and its mail was
\* sent.
C32_ResentAfterStoreAndMail ==
    /\ Done("resendOTP") /\ last.resp.status = 200 /\ last.mail = "sent"
    /\ \E o \in otps : o.id = last.otpId


\* C33: requireAdmin on a request without req.user hands on 401
\* auth.tokenRequired; on the admin routes it runs after authenticate, so a
\* request is answered 401 auth.tokenRequired only by authenticate, when it
\* has no Bearer token, and it does not enter the handler; a request that
\* entered the handler had an account attached.
C33_NoIdentityIsTokenRequired ==
    /\ requireAdmin(NoUser) = AppError(401, "auth.tokenRequired")
    /\ \A r \in InFlight \cup {last} :
          r.op \in GateRoutes =>
             /\ (r.pc = "done" /\ r.resp = errorHandler(AppError(401, "auth.tokenRequired")))
                   => ~r.bearer.present /\ r.uid = NoId
             /\ ~r.bearer.present =>
                   /\ r.pc = "done" /\ r.uid = NoId /\ r.calls = 0
                   /\ r.resp = errorHandler(AppError(401, "auth.tokenRequired"))
             /\ r.uid # NoId => r.bearer.present /\ r.hadUser

\* A request to an admin route without an Authorization header was answered
\* 401 auth.tokenRequired before any store call.
C33_NoHeaderOnAdminRoute ==
    /\ last.op \in GateRoutes /\ last.pc = "done" /\ last.bearer = NoBearer
    /\ last.resp.status = 401 /\ last.resp.key = "auth.tokenRequired"
    /\ last.uid = NoId /\ last.calls = 0


\* C34: the role of an account in the store changes only in the step in
\* which an updateUser that passed the admin gate saves that account, to the
\* role of its body; an account that enters the store has the role user.
C34_RoleOnlyByUpdateUser ==
    [][/\ \A u \in users, v \in users' :
             (u.id = v.id /\ u.role # v.role) =>
                 /\ last'.op = "updateUser" /\ last'.pc = "done"
                 /\ last'.resp.status = 200 /\ last'.uid # NoId
                 /\ castObjectId(last'.target) = u.id /\ v.role = last'.role
       /\ \A v \in users' :
             (\A u \in users : u.id # v.id) => v.role = "user"]_vars

\* The account that registered, still of role user, was answered 200 by
\* updateProfile.
C34_StillUserAfterUpdateProfile ==
    /\ Done("updateProfile") /\ last.resp.status = 200
    /\ last.uid # SuperAdmin.id /\ last.resp.user.role = "user"
    /\ \E u \in users : u.id = last.uid /\ u.role = "user"


\* The step is the findOneAndUpdate of a confirmOTP whose Otp.findOne had
\* matched a record for the email of the account u.
ConfirmStepFor(u) ==
    \E r \in InFlight, q \in BagToSet(reqs') :
        /\ r.op = "confirmOTP" /\ r.pc = "updateUser" /\ r.otpId # NoId
        /\ normalizeEmail(r.email) = u.email
        /\ q = [r EXCEPT !.calls = 2, !.hadUser = TRUE, !.found = u.id,
                         !.doc = q.doc, !.pc = "deleteOtp"]
\* The step is the save of an updateUser of the account u that passed the
\* admin gate.
UpdateUserStepFor(u) ==
    /\ last'.op = "updateUser" /\ last'.pc = "done" /\ last'.resp.status = 200
    /\ last'.uid # NoId /\ castObjectId(last'.target) = u.id

\* C35: an account whose isEmailConfirmed is true was created so by the seed
\* script, or was set so by a confirmOTP that matched an OTP record for its
\* email, or by updateUser; isEmailConfirmed of an account becomes true only
\* in such a step of confirmOTP or updateUser, becomes false only in
\* updateUser, and is false for an account that enters the store.
C35_ConfirmedOnlyByMatchOrAdmin ==
    [][/\ \A v \in users' :
             /\ v.isEmailConfirmed <=> v.confirmedBy \in {"seed", "confirmOTP", "updateUser"}
             /\ v.confirmedBy = "seed" => v.id = SuperAdmin.id
       /\ \A u \in users, v \in users' :
             (u.id = v.id /\ ~u.isEmailConfirmed /\ v.isEmailConfirmed) =>
                 \/ ConfirmStepFor(u) /\ v.confirmedBy = "confirmOTP"
                 \/ UpdateUserStepFor(u) /\ last'.confirm = "true"
                                         /\ v.confirmedBy = "updateUser"
       /\ \A u \in users, v \in users' :
             (u.id = v.id /\ u.isEmailConfirmed /\ ~v.isEmailConfirmed) =>
                 UpdateUserStepFor(u) /\ last'.confirm = "false"
       /\ \A v \in users' :
             (\A u \in users : u.id # v.id) => ~v.isEmailConfirmed]_vars

\* updateUser with isEmailConfirmed false in its body was answered 200 for
\* the registered account, which is now not confirmed.
C35_UnconfirmedByAdmin ==
    /\ Done("updateUser") /\ last.resp.status = 200 /\ last.confirm = "false"
    /\ \E u \in users : /\ u.id = castObjectId(last.target) /\ u.id # SuperAdmin.id
                        /\ ~u.isEmailConfirmed
    /\ \E t \in tokens : t # SuperAdmin.id

\* Every account whose isEmailConfirmed is true was set so by a confirmOTP
\* that matched an OTP record for its email or by updateUser.
C35_ConfirmedByMatchOrAdmin ==
    \A u \in users : u.isEmailConfirmed => u.confirmedBy \in {"confirmOTP", "updateUser"}


\* C36: a confirmOTP that is not answered 200 changes no account, no OTP
\* record and issues no token; when its Otp.findOne matched a record and no
\* account has the email, it is answered 404 auth.userNotFound.
C36_FailedConfirmChangesNothing ==
    [][(DoneNext("confirmOTP") /\ last'.resp.status # 200) =>
          /\ users' = users /\ otps' = otps /\ tokens' = tokens
          /\ last'.resp.token = NoId
          /\ last'.otpId = NoId => last'.resp.status = 400
          /\ last'.otpId # NoId =>
                /\ last'.resp = errorHandler(AppError(404, "auth.userNotFound"))
                /\ UserFindOne(users, last'.email) = {}]_vars

\* confirmOTP matched a record, found no account for the email and was
\* answered 404; the record it matched is still in the store.
C36_MatchedRecordKept ==
    /\ Done("confirmOTP") /\ last.resp.status = 404
    /\ \E o \in otps : o.id = last.otpId /\ o.otp = last.otp
    /\ UserFindOne(users, last.email) = {}


(***************************************************************************)
(* C37: every successful confirmOTP consumes a code that was issued, by    *)
(* register or resendOTP, for the account that holds the email when the    *)
(* confirmation runs; a record created for an earlier account of the email *)
(* that was deleted since never confirms a later account of that email.    *)
(***************************************************************************)
C37_CodeOfTheCurrentAccount ==
    [][(DoneNext("confirmOTP") /\ last'.resp.status = 200)
         => last'.owner = last'.found]_vars


(***************************************************************************)
(* C38: a role change takes effect on the next request. A token is signed  *)
(* while its account has the role it was created with (register: user) or  *)
(* an admin role (adminLogin); whatever that role was, a request that      *)
(* arrives at an admin route with the token is answered 403                *)
(* auth.unauthorized by requireAdmin when the store holds role user for    *)
(* the account at that moment, and passes requireAdmin when it holds admin *)
(* or superAdmin.                                                          *)
(***************************************************************************)
\* The request that arrives in a step taken while none is in flight.
Arriving == IF reqs' = EmptyBag THEN last' ELSE CHOOSE r \in BagToSet(reqs') : TRUE
\* The id in the token of a request to an admin route.
Presented(r) == IF r.bearer.present THEN r.bearer.id ELSE r.token
\* A token of the seeded account is signed under an admin role, one of a
\* registered account under role user.
SignedAsAdmin(t) == t = SuperAdmin.id

C38_RoleChangeOnNextRequest ==
    [][/\ \A u \in users' :
            (last'.pc = "done" /\ last'.resp.token = u.id)
               => (IsAdminRole(u.role) <=> SignedAsAdmin(u.id))
       /\ reqs = EmptyBag =>
            \A u \in users :
               (Arriving.op \in AdminRoutes /\ Presented(Arriving) = u.id) =>
                  IF u.role = "user"
                  THEN /\ Arriving.pc = "done" /\ Arriving.uid = NoId
                       /\ Arriving.resp = errorHandler(AppError(403, "auth.unauthorized"))
                  ELSE Arriving.uid = u.id /\ Arriving.resp.status # 403]_vars

\* The seeded account, set to role user by updateUser after its token was
\* signed, is answered 403 on an admin route.
C38_DemotedRefused ==
    /\ last.op \in AdminRoutes /\ last.pc = "done" /\ Presented(last) = SuperAdmin.id
    /\ last.resp = errorHandler(AppError(403, "auth.unauthorized"))
    /\ \E u \in users : u.id = SuperAdmin.id /\ u.role = "user"

\* The registered account, promoted by updateUser after its token was signed,
\* is in the handler of an admin route.
C38_PromotedPasses ==
    \E r \in InFlight, u \in users :
        /\ r.op \in AdminRoutes /\ Presented(r) = u.id /\ r.uid = u.id
        /\ ~SignedAsAdmin(u.id) /\ u.role = "admin"


(***************************************************************************)
(* C39: every request ends in exactly one outcome when its store and mail  *)
(* calls return. An answered request carries one response, which is either *)
(* a success (no error was thrown) or the translation by errorHandler of    *)
(* the error handed to it; a request in flight has no response yet and     *)
(* leaves only by being answered; and every request in flight is answered. *)
(***************************************************************************)
\* The one outcome of an answered request.
OneOutcome(r) ==
    /\ r.resp # NoResp
    /\ IF r.resp.thrown = NoError
       THEN r.resp.status \in 200 .. 299
       ELSE r.resp.status >= 400 /\ r.resp = errorHandler(r.resp.thrown)

C39_ExactlyOneOutcome ==
    /\ [](/\ last.pc = "done" => OneOutcome(last)
          /\ \A r \in InFlight : r.pc # "done" /\ r.resp = NoResp)
    /\ [][BagCardinality(reqs') < BagCardinality(reqs)
             => last'.pc = "done" /\ OneOutcome(last')]_vars
    /\ (reqs # EmptyBag) ~> (reqs = EmptyBag /\ last.pc = "done" /\ OneOutcome(last))

\* A confirmOTP that matched a record and found no account was answered 404
\* auth.userNotFound by errorHandler, after its second store call.
C39_HandlerErrorTranslated ==
    /\ Done("confirmOTP") /\ last.calls = 2 /\ reqs = EmptyBag
    /\ last.resp.thrown = AppError(404, "auth.userNotFound")
    /\ last.resp.status = 404

====
